---- MODULE Spec2Model ----
(***************************************************************************)
(* Air-1 dashboard add-on: the Reading Store (db.ts, storage-routes.ts),   *)
(* the entity matcher and grouper (config.ts), the value normalizer        *)
(* (ha-client.ts) and sensor discovery (server.ts).                        *)
(***************************************************************************)
EXTENDS Integers, Sequences, FiniteSets, TLC

(***************************************************************************)
(* Bounds of the model.                                                    *)
(***************************************************************************)
MaxClock == 2
MaxTs == 3
MaxGen == 3
MaxBatch == 2
MaxEntities == 3

(***************************************************************************)
(* JavaScript values carried in request bodies.  A value is a record       *)
(* [t, v]: an object (v names its content), a string (v is its text), a    *)
(* number (v is its decimal text) or undefined (a field that is absent).   *)
(***************************************************************************)
Undefined == [t |-> "undefined", v |-> ""]
Obj(k) == [t |-> "object", v |-> k]
Str(s) == [t |-> "string", v |-> s]
Num(s) == [t |-> "number", v |-> s]

\* JavaScript truthiness, as used by `!data`, `!reading.data`.
Truthy(d) ==
  CASE d.t = "undefined" -> FALSE
    [] d.t = "object" -> TRUE
    [] d.t = "string" -> d.v # ""
    [] d.t = "number" -> d.v # "0"

\* JSON.stringify: an object {k} becomes the text {k}, a string becomes its
\* text in double quotes, a number its decimal text.
JSONstringify(d) ==
  CASE d.t = "object" -> "{" \o d.v \o "}"
    [] d.t = "string" -> "\"" \o d.v \o "\""
    [] d.t = "number" -> d.v
    [] d.t = "undefined" -> "undefined"

\* The JSON values whose encodings can occur as texts in this model.
JsonValues ==
  {Obj("a"), Obj("b"), Num("0"), Str("x"), Str("{a}")}

\* JSON.parse: the value a text encodes; a text that encodes none of them is
\* not JSON and JSON.parse throws (SyntaxError).
SyntaxError == [t |-> "SyntaxError", v |-> ""]
JSONparse(text) ==
  IF \E d \in JsonValues : JSONstringify(d) = text
    THEN CHOOSE d \in JsonValues : JSONstringify(d) = text
    ELSE SyntaxError

(***************************************************************************)
(* The readings table.  A row is                                           *)
(*   [id, device_id, room, timestamp, created_at, sensor_data];            *)
(* SQL NULL in device_id is the value Null.                                *)
(***************************************************************************)
Null == "<NULL>"

VARIABLES
  rows,      \* the rows of table readings
  now,       \* the clock: Date.now() and CURRENT_TIMESTAMP
  nextId,    \* the ids generateId() has handed out so far, plus one
  resp,      \* the response sent last
  exported,  \* the bundle the client received from its last GET /export
  snapshot,  \* the rows of the table when that bundle was produced
  rt,        \* where the client is in an export / clear / import sequence
  running,   \* the handler of POST /import that has not returned yet
  ha,        \* Home Assistant: what it holds for the request in progress
  out,       \* the result of the last call into config.ts / ha-client.ts
  dash,      \* the signals of the Dashboard component
  dataSource \* the signals of the HADataSource component, localStorage and
             \* the requests of fetchData that have not been answered

storeVars == <<rows, now, nextId, resp, exported, snapshot, rt, running>>
haVars == <<ha, out>>
uiVars == <<dash, dataSource>>
vars == <<storeVars, running, haVars, uiVars>>

\* `emptyData`: sensor data none of whose fields holds a reading.
emptyData == Obj("")

\* The Dashboard component before onMount has run: no reading is viewed or
\* compared (null is 0), the history is empty.
DashInit ==
  dash = [data |-> emptyData, history |-> <<>>, compareId |-> 0,
          viewingId |-> 0, room |-> "", status |-> "", loading |-> TRUE]

\* The HADataSource component before its effects have run, with item as
\* the value of `ha_selected_sensor` in localStorage ("" when there is none);
\* null is "" in selectedSensor.  fetches are the requests of fetchData that
\* have not been answered, started counts the requests made so far and
\* delivered is the last call of props.onDataUpdate.
NotDelivered == [entityId |-> "", fetch |-> 0]
SourceInitWith(item) ==
  [sensors |-> <<>>, selectedSensor |-> "", config |-> FALSE,
   loading |-> TRUE, connected |-> FALSE, error |-> "",
   localStorage |-> item, fetches |-> {}, started |-> 0,
   delivered |-> NotDelivered]

UiInit == DashInit /\ dataSource = SourceInitWith("")

\* Nothing has been asked of Home Assistant.
NoOut == [op |-> "none"]
HaIdle == ha = [op |-> "none"] /\ out = NoOut

\* INSERT ... ON CONFLICT(timestamp, device_id) DO UPDATE SET sensor_data, room.
\* The conflict target is checked first; a NULL device_id never conflicts
\* (NULLs are distinct in a UNIQUE constraint); a row that conflicts on no
\* pair but has the id of an existing row violates PRIMARY KEY and raises.
\* r is the ReadingInsert, t the time of the insert.
ConflictRows(rws, r) ==
  {x \in rws : x.timestamp = r.timestamp /\ x.device_id = r.device_id
               /\ r.device_id # Null}

\* INSERT OR REPLACE: the rows that the new one conflicts with, by pair or
\* by id, are deleted and the new row is inserted.
insertReading_replace(rws, r, t) ==
  [ok |-> TRUE,
   rows |-> {x \in rws : x \notin ConflictRows(rws, r) /\ x.id # r.id}
            \cup {[id |-> r.id, device_id |-> r.device_id, room |-> r.room,
                   timestamp |-> r.timestamp, created_at |-> t,
                   sensor_data |-> r.sensor_data]}]

insertReading(rws, r, t) ==
  IF ConflictRows(rws, r) # {}
    THEN [ok |-> TRUE,
          rows |-> {IF x \in ConflictRows(rws, r)
                      THEN [x EXCEPT !.sensor_data = r.sensor_data,
                                     !.room = r.room]
                      ELSE x : x \in rws}]
    ELSE IF \E x \in rws : x.id = r.id
      THEN [ok |-> FALSE, rows |-> rws]
      ELSE [ok |-> TRUE,
            rows |-> rws \cup {[id |-> r.id, device_id |-> r.device_id,
                                room |-> r.room, timestamp |-> r.timestamp,
                                created_at |-> t,
                                sensor_data |-> r.sensor_data]}]

\* `device_id || null`: an absent or empty device_id, or a JSON null, is NULL.
OrNull(dev) == IF dev = "" \/ dev = Null THEN Null ELSE dev

\* A response: the status and the fields of the JSON body that the handlers
\* set (id, timestamp; imported, errors, total; readings, pagination; the
\* statistics, <<>> when the body has none).
NoResp == [op |-> "none", status |-> 0, id |-> 0, timestamp |-> 0,
           imported |-> 0, errors |-> 0, total |-> 0, readings |-> <<>>,
           limit |-> 0, offset |-> 0, stats |-> <<>>]

\* No handler has been entered that has not returned.
Idle == [op |-> "none"]

StoreInit ==
  /\ running = Idle
  /\ rows = {}
  /\ now = 1
  /\ nextId = 1
  /\ resp = NoResp
  /\ exported = <<>>
  /\ snapshot = {}
  /\ rt = "idle"

\* Time passes between two requests.
Tick ==
  /\ now < MaxClock
  /\ now' = now + 1
  /\ UNCHANGED <<rows, nextId, resp, exported, snapshot, rt, running, haVars, uiVars>>

\* A request that writes ends an export / clear / import sequence.
EndRoundTrip ==
  /\ exported' = <<>>
  /\ snapshot' = {}
  /\ rt' = "idle"

\* POST /readings that stamps every reading with the time of the request,
\* whatever timestamp the payload carries.
SaveReading_stampNow(body) ==
  /\ nextId <= MaxGen
  /\ EndRoundTrip
  /\ UNCHANGED <<now, running, haVars, uiVars>>
  /\ IF ~Truthy(body.data) \/ body.room = ""
       THEN /\ resp' = [NoResp EXCEPT !.op = "save", !.status = 400]
            /\ UNCHANGED <<rows, nextId>>
       ELSE LET id == nextId
                res == insertReading(rows,
                         [id |-> id, device_id |-> OrNull(body.device_id),
                          room |-> body.room, timestamp |-> now,
                          sensor_data |-> JSONstringify(body.data)], now)
            IN /\ nextId' = nextId + 1
               /\ rows' = res.rows
               /\ resp' = IF res.ok
                            THEN [NoResp EXCEPT !.op = "save", !.status = 201,
                                    !.id = id, !.timestamp = now]
                            ELSE [NoResp EXCEPT !.op = "save", !.status = 500]

\* POST /readings
SaveReading(body) ==
  /\ nextId <= MaxGen
  /\ EndRoundTrip
  /\ UNCHANGED <<now, running, haVars, uiVars>>
  /\ IF ~Truthy(body.data) \/ body.room = ""
       THEN /\ resp' = [NoResp EXCEPT !.op = "save", !.status = 400]
            /\ UNCHANGED <<rows, nextId>>
       ELSE LET id == nextId
                readingTimestamp ==
                  IF body.timestamp # 0 THEN body.timestamp ELSE now
                res == insertReading(rows,
                         [id |-> id, device_id |-> OrNull(body.device_id),
                          room |-> body.room, timestamp |-> readingTimestamp,
                          sensor_data |-> JSONstringify(body.data)], now)
            IN /\ nextId' = nextId + 1
               /\ rows' = res.rows
               /\ resp' = IF res.ok
                            THEN [NoResp EXCEPT !.op = "save", !.status = 201,
                                    !.id = id, !.timestamp = readingTimestamp]
                            ELSE [NoResp EXCEPT !.op = "save", !.status = 500]

\* One iteration of the loop of POST /import over a candidate reading; st is
\* [rows, nextId, imported, errors], t the time of the request.
importOne(st, reading, t) ==
  IF ~Truthy(reading.data) \/ reading.room = "" \/ reading.timestamp = 0
    THEN [st EXCEPT !.errors = @ + 1]
    ELSE LET generated == reading.id = 0
             id == IF generated THEN st.nextId ELSE reading.id
             res == insertReading(st.rows,
                      [id |-> id, device_id |-> OrNull(reading.device_id),
                       room |-> reading.room, timestamp |-> reading.timestamp,
                       sensor_data |-> IF reading.data.t = "string"
                                         THEN reading.data.v
                                         ELSE JSONstringify(reading.data)], t)
             used == IF generated THEN st.nextId + 1 ELSE st.nextId
         IN IF res.ok
              THEN [rows |-> res.rows, nextId |-> used,
                    imported |-> st.imported + 1, errors |-> st.errors]
              ELSE [rows |-> st.rows, nextId |-> used,
                    imported |-> st.imported, errors |-> st.errors + 1]

\* importLoop with the try/catch around the loop instead of inside it: the
\* first rejected candidate ends the import.
RECURSIVE importLoop_abort(_, _, _)
importLoop_abort(st, readings, t) ==
  IF readings = <<>>
    THEN st
    ELSE LET nxt == importOne(st, Head(readings), t)
         IN IF nxt.errors > st.errors
              THEN nxt
              ELSE importLoop_abort(nxt, Tail(readings), t)

\* `for (const reading of readings) { try { ... } catch { errorCount++ } }`
RECURSIVE importLoop(_, _, _)
importLoop(st, readings, t) ==
  IF readings = <<>>
    THEN st
    ELSE importLoop(importOne(st, Head(readings), t), Tail(readings), t)

\* POST /import
ImportBatch(body) ==
  /\ UNCHANGED <<now, running, haVars, uiVars>>
  /\ IF ~body.isArray
       THEN /\ resp' = [NoResp EXCEPT !.op = "import", !.status = 400]
            /\ EndRoundTrip
            /\ UNCHANGED <<rows, nextId>>
       ELSE LET fin == importLoop([rows |-> rows, nextId |-> nextId,
                                   imported |-> 0, errors |-> 0],
                                  body.readings, now)
            IN /\ fin.nextId <= MaxGen + 1
               /\ rows' = fin.rows
               /\ nextId' = fin.nextId
               /\ resp' = [NoResp EXCEPT !.op = "import", !.status = 200,
                             !.imported = fin.imported, !.errors = fin.errors,
                             !.total = Len(body.readings)]
               /\ IF rt = "emptied" /\ body.readings = exported
                    THEN rt' = "imported" /\ UNCHANGED <<exported, snapshot>>
                    ELSE EndRoundTrip

\* DELETE FROM readings, without the WHERE clause, once the id is found.
deleteReading_all(rws, id) ==
  IF \E x \in rws : x.id = id THEN {} ELSE rws

\* DELETE FROM readings WHERE id = ?
deleteReading(rws, id) == {x \in rws : x.id # id}

\* DELETE /readings/:id
DeleteReading(id) ==
  /\ rows' = deleteReading(rows, id)
  /\ resp' = [NoResp EXCEPT !.op = "delete", !.status = 200, !.id = id]
  /\ EndRoundTrip
  /\ UNCHANGED <<now, nextId, running, haVars, uiVars>>

\* DELETE /readings
DeleteAll ==
  /\ rows' = {}
  /\ resp' = [NoResp EXCEPT !.op = "deleteAll", !.status = 200]
  /\ IF rt = "exported"
       THEN rt' = "emptied" /\ UNCHANGED <<exported, snapshot>>
       ELSE EndRoundTrip
  /\ UNCHANGED <<now, nextId, running, haVars, uiVars>>

\* ORDER BY timestamp ASC / DESC: the sequences that list every row of S once,
\* oldest (newest) first; SQL leaves the order of rows with equal timestamps
\* open.
RECURSIVE OrderByTimestampAsc(_)
OrderByTimestampAsc(S) ==
  IF S = {}
    THEN {<<>>}
    ELSE UNION {{<<x>> \o s : s \in OrderByTimestampAsc(S \ {x})} :
                  x \in {y \in S : \A z \in S : y.timestamp <= z.timestamp}}
RECURSIVE OrderByTimestampDesc(_)
OrderByTimestampDesc(S) ==
  IF S = {}
    THEN {<<>>}
    ELSE UNION {{<<x>> \o s : s \in OrderByTimestampDesc(S \ {x})} :
                  x \in {y \in S : \A z \in S : y.timestamp >= z.timestamp}}

\* LIMIT ? OFFSET ?
Min(a, b) == IF a < b THEN a ELSE b
LimitOffset(s, limit, offset) ==
  SubSeq(s, offset + 1, Min(Len(s), offset + limit))

\* The default of `limit` in getReadings and in GET /readings.
DefaultLimit == 50

\* WHERE 1=1 [AND device_id = ?] [AND room = ?] [AND timestamp >= ?]: a
\* filter is added when its value is truthy.
Where(rws, device_id, room, since) ==
  {x \in rws : /\ (device_id # "" => x.device_id = device_id)
               /\ (room # "" => x.room = room)
               /\ (since # 0 => x.timestamp >= since)}

\* getReadings with ORDER BY timestamp ASC.
getReadings_oldestFirst(rws, limit, offset, device_id, room, since) ==
  {LimitOffset(s, limit, offset) :
     s \in OrderByTimestampAsc(Where(rws, device_id, room, since))}

\* AirQualityDatabase.getReadings: the lists the SELECT may return.
getReadings(rws, limit, offset, device_id, room, since) ==
  {LimitOffset(s, limit, offset) :
     s \in OrderByTimestampDesc(Where(rws, device_id, room, since))}

\* A stored row as GET /readings and GET /export send it: sensor_data parsed.
ParsedReading(x) ==
  [id |-> x.id, device_id |-> x.device_id, room |-> x.room,
   timestamp |-> x.timestamp, created_at |-> x.created_at,
   data |-> JSONparse(x.sensor_data)]
ParsedReadings(s) == [i \in DOMAIN s |-> ParsedReading(s[i])]
ParseThrows(s) == \E i \in DOMAIN s : ParsedReading(s[i]).data = SyntaxError

\* GET /readings; q.limit, q.offset and q.since are <<>> when the query
\* parameter is absent and <<n>> when it is n.
GetReadings(q) ==
  LET limit == IF q.limit # <<>> THEN q.limit[1] ELSE DefaultLimit
      offset == IF q.offset # <<>> THEN q.offset[1] ELSE 0
      since == IF q.since # <<>> THEN q.since[1] ELSE 0
  IN /\ \E s \in getReadings(rows, limit, offset, q.device_id, q.room, since) :
          resp' = IF ParseThrows(s)
                    THEN [NoResp EXCEPT !.op = "query", !.status = 500]
                    ELSE [NoResp EXCEPT !.op = "query", !.status = 200,
                            !.readings = ParsedReadings(s),
                            !.limit = limit, !.offset = offset]
     /\ UNCHANGED <<rows, now, nextId, exported, snapshot, rt, running, haVars, uiVars>>

\* getAllReadingsForExport with the order of getReadings: newest first.
getAllReadingsForExport_newestFirst(rws) == OrderByTimestampDesc(rws)

\* AirQualityDatabase.getAllReadingsForExport
getAllReadingsForExport(rws) == OrderByTimestampAsc(rws)

\* GET /export
ExportReadings ==
  /\ \E s \in getAllReadingsForExport(rows) :
       IF ParseThrows(s)
         THEN /\ resp' = [NoResp EXCEPT !.op = "export", !.status = 500]
              /\ EndRoundTrip
         ELSE /\ resp' = [NoResp EXCEPT !.op = "export", !.status = 200,
                            !.readings = ParsedReadings(s)]
              /\ exported' = ParsedReadings(s)
              /\ snapshot' = rows
              /\ rt' = "exported"
  /\ UNCHANGED <<rows, now, nextId, running, haVars, uiVars>>

\* ORDER BY on a TEXT column (BINARY collation): NULL sorts first, strings
\* sort by their bytes.
Bytes == "0123456789ABCDEFGHIJKLMNOPQRSTUVWXYZ_abcdefghijklmnopqrstuvwxyz"
byte(c) == CHOOSE i \in 1..Len(Bytes) : SubSeq(Bytes, i, i) = c

RECURSIVE TextLess(_, _)
TextLess(a, b) ==
  IF a = Null \/ b = Null THEN a = Null /\ b # Null
  ELSE IF a = "" \/ b = "" THEN a = "" /\ b # ""
  ELSE IF SubSeq(a, 1, 1) = SubSeq(b, 1, 1) THEN TextLess(Tail(a), Tail(b))
  ELSE byte(SubSeq(a, 1, 1)) < byte(SubSeq(b, 1, 1))

RECURSIVE OrderByText(_)
OrderByText(S) ==
  IF S = {}
    THEN <<>>
    ELSE LET first == CHOOSE x \in S : \A y \in S \ {x} : TextLess(x, y)
         IN <<first>> \o OrderByText(S \ {first})

\* SELECT MIN(timestamp), MAX(timestamp): NULL on an empty table.
MinTimestamp(rws) ==
  IF rws = {} THEN Null
  ELSE CHOOSE t \in {x.timestamp : x \in rws} :
         \A x \in rws : t <= x.timestamp
MaxTimestamp(rws) ==
  IF rws = {} THEN Null
  ELSE CHOOSE t \in {x.timestamp : x \in rws} :
         \A x \in rws : t >= x.timestamp

\* getStats without `WHERE device_id IS NOT NULL`.
getStats_nullDevice(rws) ==
  [total_readings |-> Cardinality(rws),
   oldest_timestamp |-> MinTimestamp(rws),
   newest_timestamp |-> MaxTimestamp(rws),
   devices |-> OrderByText({x.device_id : x \in rws}),
   rooms |-> OrderByText({x.room : x \in rws})]

\* AirQualityDatabase.getStats
getStats(rws) ==
  [total_readings |-> Cardinality(rws),
   oldest_timestamp |-> MinTimestamp(rws),
   newest_timestamp |-> MaxTimestamp(rws),
   devices |-> OrderByText({x.device_id : x \in rws} \ {Null}),
   rooms |-> OrderByText({x.room : x \in rws})]

\* GET /stats
GetStats ==
  /\ resp' = [NoResp EXCEPT !.op = "stats", !.status = 200,
                !.stats = getStats(rows)]
  /\ UNCHANGED <<rows, now, nextId, exported, snapshot, rt, running, haVars, uiVars>>

(***************************************************************************)
(* Requests.  `room` and `device_id` are "" and `timestamp` and `id` are 0 *)
(* when the field is absent from the JSON body.                            *)
(***************************************************************************)
Reading(id, dev, room, ts, data) ==
  [id |-> id, device_id |-> dev, room |-> room, timestamp |-> ts,
   created_at |-> 0, data |-> data]

SaveBody(data, room, dev, ts) ==
  [data |-> data, room |-> room, device_id |-> dev, timestamp |-> ts]

\* Two payloads that differ in data and in room.
Payloads == {<<Obj("a"), "r1">>, <<Obj("b"), "r2">>}

\* Bodies of POST /readings: complete ones, with and without device_id and
\* timestamp, one lacking data and one lacking room.
SaveBodies ==
  {SaveBody(p[1], p[2], dev, ts) : p \in Payloads, dev \in {"", "d1"}, ts \in {0, 1}}
  \cup {SaveBody(Undefined, "r1", "", 0), SaveBody(Obj("a"), "", "", 0)}

\* An id the client made up itself (generateId never returns it).
ClientIds == {101}

\* The ids generateId has returned so far, and the last of them.
GeneratedIds == {j \in 1..MaxGen : j < nextId}
LastGeneratedId == {j \in GeneratedIds : j + 1 = nextId}

\* Candidates of a batch: complete ones without id, with a client id and with
\* an id this server generated before; ones lacking data, room or timestamp.
Candidates ==
  {Reading(0, "", "r1", 1, Obj("b")),
   Reading(0, "d1", "r2", 1, Obj("b")),
   Reading(0, "", "", 1, Obj("a")),
   Reading(0, "", "r1", 1, Undefined),
   Reading(0, "", "r1", 0, Obj("a"))}
  \cup {Reading(i, "d1", "r1", 2, Obj("a")) : i \in ClientIds}
  \cup {Reading(i, "", "r2", 2, Obj("a")) : i \in LastGeneratedId}

\* The sequences over S of length at most n.
SeqsUpTo(S, n) == UNION {[1..k -> S] : k \in 0..n}

ImportBody(readings) == [isArray |-> TRUE, readings |-> readings]
NotAnArray == [isArray |-> FALSE, readings |-> <<>>]

ImportBodies ==
  {ImportBody(b) : b \in SeqsUpTo(Candidates, MaxBatch)} \cup {NotAnArray}

(***************************************************************************)
(* Spec: the writes of the Reading Store.                                  *)
(***************************************************************************)
Init == StoreInit /\ UiInit /\ HaIdle

Next ==
  \/ Tick
  \/ \E body \in SaveBodies : SaveReading(body)
  \/ \E c \in Candidates : ImportBatch(ImportBody(<<c>>))
  \/ \E id \in GeneratedIds \cup ClientIds : DeleteReading(id)
  \/ DeleteAll

Spec == Init /\ [][Next]_vars

(***************************************************************************)
(* Claims about the writes of the Reading Store.                           *)
(***************************************************************************)

\* The rows of rws that have the (timestamp, device_id) pair of a reading;
\* device_id may be a string or NULL.
SamePair(rws, ts, dev) ==
  {x \in rws : x.timestamp = ts /\ x.device_id = dev}

\* The ids of the rows of rws.
Ids(rws) == {x.id : x \in rws}

\* C2: after any sequence of inserts (saveReading, importBatch) no two rows
\* have the same (timestamp, device_id) pair, whether device_id is a string
\* or NULL.
C2_UniquePair ==
  \A x, y \in rows :
    (x.timestamp = y.timestamp /\ x.device_id = y.device_id) => x = y

\* What C3 says an insert of (ts, dev, room, sensor_data) does to a store
\* that holds a row with the pair (ts, dev): sensor_data and room of that
\* row are replaced, its id and created_at stay, no other row changes.
UpsertedRows(rws, ts, dev, room, sensor_data) ==
  {IF x \in SamePair(rws, ts, dev)
     THEN [x EXCEPT !.sensor_data = sensor_data, !.room = room]
     ELSE x : x \in rws}

\* C3: when an insert hits an existing (timestamp, device_id) pair, only
\* sensor_data and room of the existing row are replaced; its id and
\* created_at stay as they were and every other row is unchanged.
C3_UpsertFrame ==
  [][\A body \in SaveBodies :
       LET ts == IF body.timestamp # 0 THEN body.timestamp ELSE now
           dev == OrNull(body.device_id)
       IN (SaveReading(body) /\ resp'.status = 201
           /\ SamePair(rows, ts, dev) # {})
          => rows' = UpsertedRows(rows, ts, dev, body.room,
                                  JSONstringify(body.data))]_vars

\* The part of C3 that the engine's conflict rule covers: an insert whose
\* pair has a non-NULL device_id and is already present.
C3_UpsertFrameNonNull ==
  [][\A body \in SaveBodies :
       LET ts == IF body.timestamp # 0 THEN body.timestamp ELSE now
           dev == OrNull(body.device_id)
       IN (SaveReading(body) /\ resp'.status = 201 /\ dev # Null
           /\ SamePair(rows, ts, dev) # {})
          => rows' = UpsertedRows(rows, ts, dev, body.room,
                                  JSONstringify(body.data))]_vars

(***************************************************************************)
(* SpecImport: POST /import with batches of up to MaxBatch candidates, on  *)
(* stores that saves and earlier imports have filled.                      *)
(***************************************************************************)
SeedBodies ==
  {SaveBody(Obj("a"), "r1", "", 1), SaveBody(Obj("a"), "r1", "d1", 1)}

NextImport ==
  \/ \E body \in SeedBodies : SaveReading(body)
  \/ \E body \in ImportBodies : ImportBatch(body)
  \/ DeleteAll

SpecImport == Init /\ [][NextImport]_vars

\* What C12 says of POST /readings with payload body.
C12Post(body) ==
  LET ts == IF body.timestamp # 0 THEN body.timestamp ELSE now
      dev == OrNull(body.device_id)
      holds(x) == /\ x.timestamp = ts /\ x.device_id = dev
                  /\ x.room = body.room
                  /\ x.sensor_data = JSONstringify(body.data)
  IN IF body.data = Undefined \/ body.room = ""
       THEN resp'.status = 400 /\ rows' = rows
       ELSE /\ resp'.status = 201
            /\ resp'.timestamp = ts
            /\ \E x \in rows' : holds(x)
            /\ \A x \in rows' \ rows : holds(x)
            /\ Cardinality(rows' \ rows) <= 1
            /\ Cardinality(rows') <= Cardinality(rows) + 1

\* C12: saveReading with a payload that lacks data or room answers with a
\* validation error and leaves the store unchanged; with both present it
\* stores one reading whose timestamp is the payload's timestamp, or the time
\* of the request when the payload has none, and returns that timestamp.
C12_SaveReading ==
  [][\A body \in SaveBodies : SaveReading(body) => C12Post(body)]_vars

\* A payload without timestamp was saved after the clock had advanced, and
\* the reading is stored under the time of the request.
C12_Witness ==
  /\ resp.op = "save" /\ resp.status = 201 /\ resp.timestamp = MaxClock
  /\ \E x \in rows : x.id = resp.id /\ x.timestamp = MaxClock

\* C13: delete(id) with an id that no row has is not an error and leaves the
\* store unchanged; delete(id) with an existing id removes exactly that row
\* and leaves every other row unchanged.
C13_Delete ==
  [][\A id \in GeneratedIds \cup ClientIds :
       DeleteReading(id)
         => /\ resp'.status = 200
            /\ IF id \in Ids(rows)
                 THEN /\ rows' \subseteq rows
                      /\ \A x \in rows : x \in rows' <=> x.id # id
                      /\ Cardinality(rows') = Cardinality(rows) - 1
                 ELSE rows' = rows]_vars

\* The first of two stored readings was deleted and the second is still
\* there.
C13_Witness ==
  /\ resp.op = "delete" /\ resp.status = 200 /\ resp.id = 1 /\ nextId = 3
  /\ Ids(rows) = {2}

\* C25: after every successful saveReading the store has a row whose id is
\* the id returned to the caller, so that a following deleteReading with
\* that id removes the reading that was just saved.
C25_ReturnedId ==
  [][\A body \in SaveBodies :
       (SaveReading(body) /\ resp'.status = 201)
         => \E x \in rows' \ deleteReading(rows', resp'.id) :
              /\ x.timestamp = resp'.timestamp
              /\ x.device_id = OrNull(body.device_id)
              /\ x.room = body.room
              /\ x.sensor_data = JSONstringify(body.data)]_vars

\* C25 for the saves that make a new row: those whose pair no row has, or
\* whose device_id is NULL.
C25_ReturnedIdNewRow ==
  [][\A body \in SaveBodies :
       LET ts == IF body.timestamp # 0 THEN body.timestamp ELSE now
           dev == OrNull(body.device_id)
       IN (SaveReading(body) /\ resp'.status = 201
           /\ (dev = Null \/ SamePair(rows, ts, dev) = {}))
          => /\ resp'.id \in Ids(rows')
             /\ \A x \in rows' : x.id = resp'.id
                  => /\ x.timestamp = ts /\ x.device_id = dev
                     /\ x.room = body.room
                     /\ x.sensor_data = JSONstringify(body.data)]_vars

(***************************************************************************)
(* SpecInsert: single inserts that POST /import makes with ids the client  *)
(* sends (its own, or ids this server generated before), on stores that    *)
(* saves have filled.                                                      *)
(***************************************************************************)
InsertCandidates ==
  {Reading(i, dev, "r2", ts, Obj("b")) :
     i \in {0} \cup ClientIds \cup GeneratedIds, dev \in {"", "d1"},
     ts \in 1..2}

NextInsert ==
  \/ \E body \in SeedBodies : SaveReading(body)
  \/ \E c \in InsertCandidates : ImportBatch(ImportBody(<<c>>))
  \/ \E id \in GeneratedIds \cup ClientIds : DeleteReading(id)

SpecInsert == Init /\ [][NextInsert]_vars

\* What C11 says of the insert that an import makes of candidate c: it is
\* rejected only if a row with its id and another pair exists, it upserts
\* when a row with its id and its pair exists, and a rejected insert leaves
\* the table as it was.
C11Post(c) ==
  LET id == IF c.id = 0 THEN nextId ELSE c.id
      dev == OrNull(c.device_id)
      sameId == {x \in rows : x.id = id}
      samePair == SamePair(rows, c.timestamp, dev)
      rejected == resp'.errors = 1
  IN /\ rejected => /\ \E x \in sameId : x \notin samePair
                    /\ rows' = rows
     /\ (\E x \in sameId : x \in samePair)
          => /\ resp'.imported = 1
             /\ rows' = UpsertedRows(rows, c.timestamp, dev, c.room,
                                     JSONstringify(c.data))

\* C11: an insert is rejected with a constraint violation only when its id is
\* the id of an existing row whose (timestamp, device_id) pair differs from
\* its own; an insert whose id and pair are those of one existing row
\* succeeds as an upsert; a rejected insert leaves the store unchanged.
C11_ConstraintViolation ==
  [][\A c \in InsertCandidates :
       ImportBatch(ImportBody(<<c>>)) => C11Post(c)]_vars

\* The part of C11 that the engine's conflict rule covers: inserts with a
\* non-NULL device_id.
C11_ConstraintViolationNonNull ==
  [][\A c \in InsertCandidates :
       (ImportBatch(ImportBody(<<c>>)) /\ OrNull(c.device_id) # Null)
         => C11Post(c)]_vars

(***************************************************************************)
(* Claims about POST /import.                                              *)
(***************************************************************************)
\* A candidate lacks its data payload, its room or its timestamp.
Lacking(c) == ~Truthy(c.data) \/ c.room = "" \/ c.timestamp = 0

\* What C4 says of an import of batch b, between the state before the
\* request and the state after it.
C4Post(b) ==
  LET complete == {i \in DOMAIN b : ~Lacking(b[i])}
      lacking == DOMAIN b \ complete
      \* complete candidates whose insert cannot raise: no id, or an id that
      \* neither a row nor an earlier candidate of the batch has
      clean == {i \in complete :
                  \/ b[i].id = 0
                  \/ /\ b[i].id \notin Ids(rows)
                     /\ \A j \in 1..(i - 1) : b[j].id # b[i].id}
      \* complete candidates whose insert raises: the id of an existing row
      \* and a NULL device_id, which conflicts with no pair
      raising == {i \in complete :
                    b[i].id \in Ids(rows) /\ OrNull(b[i].device_id) = Null}
      lastOfPair(i) ==
        \A j \in complete :
          (j > i /\ b[j].timestamp = b[i].timestamp
                 /\ OrNull(b[j].device_id) = OrNull(b[i].device_id)) => FALSE
  IN /\ resp'.status = 200
     /\ resp'.total = Len(b)
     /\ resp'.imported + resp'.errors = resp'.total
     /\ resp'.errors >= Cardinality(lacking) + Cardinality(raising)
     /\ resp'.imported >= Cardinality(clean)
     \* every clean candidate is in the store afterwards
     /\ \A i \in clean :
          \E x \in rows' :
            /\ x.timestamp = b[i].timestamp
            /\ x.device_id = OrNull(b[i].device_id)
            /\ lastOfPair(i) =>
                 /\ x.room = b[i].room
                 /\ x.sensor_data = JSONstringify(b[i].data)
     \* a new row has the id of its candidate or a freshly generated one
     /\ \A x \in rows' :
          x.id \notin Ids(rows) =>
            \/ \E i \in complete : b[i].id = x.id
            \/ x.id >= nextId /\ x.id < nextId'
     /\ Cardinality(rows') >= Cardinality(rows)
     /\ Cardinality(rows') <= Cardinality(rows) + resp'.imported
     \* one complete new reading and one reading without room
     /\ ( /\ Len(b) = 2
          /\ Cardinality(lacking) = 1
          /\ \E i \in clean : SamePair(rows, b[i].timestamp,
                                       OrNull(b[i].device_id)) = {} )
        => /\ resp'.imported = 1 /\ resp'.errors = 1 /\ resp'.total = 2
           /\ Cardinality(rows') = Cardinality(rows) + 1

\* C4: importBatch processes every candidate in order and never aborts: a
\* candidate lacking data, room or timestamp, or whose insert raises, counts
\* as an error and the following ones are still processed; every other one
\* is inserted (with a fresh id when it has none) and counts as imported;
\* imported + errors = total = the length of the batch.
C4_ImportBatch ==
  [][\A body \in ImportBodies :
       ( /\ body.isArray
         /\ resp'.op = "import" /\ resp'.total = Len(body.readings)
         /\ ImportBatch(body) ) => C4Post(body.readings)]_vars

\* An import of two candidates, one lacking its room, has answered
\* {imported: 1, errors: 1, total: 2} and left the one row.
C4_Witness ==
  /\ resp.op = "import" /\ resp.status = 200
  /\ resp.imported = 1 /\ resp.errors = 1 /\ resp.total = 2
  /\ Cardinality(rows) = 1

\* Some candidate of batch b has the (timestamp, device_id) pair of row x.
PairInBatch(b, x) ==
  \E i \in DOMAIN b :
    b[i].timestamp = x.timestamp /\ OrNull(b[i].device_id) = x.device_id

\* C27: importBatch never deletes a row and never changes a row whose
\* (timestamp, device_id) pair matches no candidate of the batch; the row
\* count after the import is at least the count before it and at most the
\* count before it plus the imported count that is reported.
C27_ImportFrame ==
  [][\A body \in ImportBodies :
       (ImportBatch(body) /\ body.isArray)
         => /\ Ids(rows) \subseteq Ids(rows')
            /\ \A x \in rows : ~PairInBatch(body.readings, x) => x \in rows'
            /\ Cardinality(rows') >= Cardinality(rows)
            /\ Cardinality(rows') <= Cardinality(rows) + resp'.imported]_vars

\* An import of two readings, one of which went into the row that a save
\* with the same pair had made.
C27_Witness ==
  /\ resp.op = "import" /\ resp.imported = 2
  /\ Cardinality(rows) = 2
  /\ \E x \in rows : /\ x.id = 1 /\ x.device_id = "d1" /\ x.room = "r2"
                     /\ x.sensor_data = JSONstringify(Obj("b"))

(***************************************************************************)
(* SpecRoundTrip: a client exports the store, empties it and imports the   *)
(* bundle it received, on stores that saves and imports have filled.       *)
(***************************************************************************)
RoundTripBodies ==
  {SaveBody(p[1], p[2], dev, 1) : p \in Payloads, dev \in {"", "d1"}}

\* POST /import with the readings of the last GET /export, after DELETE
\* /readings.
ImportExported ==
  /\ rt = "emptied"
  /\ ImportBatch(ImportBody(exported))

NextRoundTrip ==
  \/ Tick
  \/ \E body \in RoundTripBodies : SaveReading(body)
  \/ \E c \in Candidates : ImportBatch(ImportBody(<<c>>))
  \/ ExportReadings
  \/ DeleteAll
  \/ ImportExported

SpecRoundTrip == Init /\ [][NextRoundTrip]_vars

\* C5: export, then emptying the store, then import of the exported readings
\* gives a store with the same number of rows and, for every row, the same
\* id, device_id, room, timestamp, created_at and sensor_data as before the
\* export.
C5_RoundTrip ==
  rt = "imported" =>
    /\ Cardinality(rows) = Cardinality(snapshot)
    /\ rows = snapshot

\* The round trip with created_at left out of the comparison.
WithoutCreatedAt(rws) ==
  {[id |-> x.id, device_id |-> x.device_id, room |-> x.room,
    timestamp |-> x.timestamp, sensor_data |-> x.sensor_data] : x \in rws}

C5_RoundTripButCreatedAt ==
  rt = "imported" =>
    /\ Cardinality(rows) = Cardinality(snapshot)
    /\ WithoutCreatedAt(rows) = WithoutCreatedAt(snapshot)

\* C14: exportAll returns every row of the store exactly once, with no limit,
\* ordered by timestamp ascending (oldest first), which is the reverse of the
\* order of query.
C14_ExportAll ==
  [][ExportReadings
       => LET r == resp'.readings
          IN /\ resp'.status = 200
             /\ Len(r) = Cardinality(rows)
             /\ \A x \in rows :
                  Cardinality({i \in DOMAIN r : r[i] = ParsedReading(x)}) = 1
             /\ \A i, j \in DOMAIN r :
                  i < j => r[i].timestamp <= r[j].timestamp]_vars

\* An export of a store whose rows have different timestamps: the older one
\* comes first.
C14_Witness ==
  /\ resp.op = "export" /\ resp.status = 200
  /\ Len(resp.readings) >= 2
  /\ resp.readings[1].timestamp < resp.readings[Len(resp.readings)].timestamp

(***************************************************************************)
(* SpecStats: GET /stats on stores that saves and deletes have shaped.     *)
(***************************************************************************)
StatsBodies ==
  {SaveBody(Obj("a"), room, dev, ts) :
     room \in {"r1", "r2"}, dev \in {"", "d1", "d2"}, ts \in {0, 1}}

NextStats ==
  \/ Tick
  \/ \E body \in StatsBodies : SaveReading(body)
  \/ \E id \in GeneratedIds : DeleteReading(id)
  \/ DeleteAll
  \/ resp.op # "stats" /\ GetStats

SpecStats == Init /\ [][NextStats]_vars

\* The elements of a list, and a list without repetitions.
Range(s) == {s[i] : i \in DOMAIN s}
ListsOnce(s) == Cardinality(Range(s)) = Len(s)

\* C15: in every reachable store state stats() returns the number of rows,
\* the minimum and the maximum row timestamp, and the distinct non-null
\* device_id and room values, each listed once.  On an empty store, at the
\* start or after deleteAll, it returns 0, null, null and two empty lists.
C15_Stats ==
  [][GetStats
       => LET st == resp'.stats
          IN /\ resp'.status = 200
             /\ st.total_readings = Cardinality(rows)
             /\ Range(st.devices) = {x.device_id : x \in rows} \ {Null}
             /\ ListsOnce(st.devices)
             /\ Range(st.rooms) = {x.room : x \in rows} \ {Null}
             /\ ListsOnce(st.rooms)
             /\ IF rows = {}
                  THEN st = [total_readings |-> 0, oldest_timestamp |-> Null,
                             newest_timestamp |-> Null, devices |-> <<>>,
                             rooms |-> <<>>]
                  ELSE /\ \E x \in rows : st.oldest_timestamp = x.timestamp
                       /\ \A x \in rows : st.oldest_timestamp <= x.timestamp
                       /\ \E x \in rows : st.newest_timestamp = x.timestamp
                       /\ \A x \in rows : st.newest_timestamp >= x.timestamp]_vars

\* Statistics of a store that holds readings of two devices and one without
\* device, taken at different times.
C15_Witness ==
  /\ resp.op = "stats"
  /\ resp.stats.total_readings = 3
  /\ Len(resp.stats.devices) = 2
  /\ resp.stats.oldest_timestamp < resp.stats.newest_timestamp

\* Statistics of a store that deleteAll has emptied.
C15_WitnessEmptied ==
  /\ resp.op = "stats" /\ nextId > 1
  /\ resp.stats.total_readings = 0 /\ resp.stats.oldest_timestamp = Null

(***************************************************************************)
(* SpecQuery: GET /readings on stores of up to MaxGen saved readings with  *)
(* timestamps 1..MaxTs.                                                    *)
(***************************************************************************)
QueryBodies ==
  {SaveBody(Obj("a"), k[1], k[2], ts) :
     k \in {<<"r1", "d1">>, <<"r2", "d1">>, <<"r1", "">>}, ts \in 1..MaxTs}

Query(limit, offset, device_id, room, since) ==
  [limit |-> limit, offset |-> offset, device_id |-> device_id,
   room |-> room, since |-> since]

\* Query strings: limit and offset absent or given, each filter absent or
\* given.
Queries ==
  {Query(lo[1], lo[2], dev, room, since) :
     lo \in {<<<<>>, <<>>>>, <<<<1>>, <<0>>>>, <<<<1>>, <<1>>>>,
             <<<<2>>, <<1>>>>},
     dev \in {"", "d1"}, room \in {"", "r1"}, since \in {<<>>, <<2>>}}

\* A query changes nothing but the response: a second query in a row would
\* read the store the first one read, so a save comes between two queries.
NextQuery ==
  \/ \E body \in QueryBodies : SaveReading(body)
  \/ resp.op # "query" /\ \E q \in Queries : GetReadings(q)

SpecQuery == Init /\ [][NextQuery]_vars

\* What C6 says of the answer to query q on the store.
C6Post(q) ==
  LET limit == IF q.limit = <<>> THEN 50 ELSE q.limit[1]
      offset == IF q.offset = <<>> THEN 0 ELSE q.offset[1]
      matching ==
        {x \in rows : /\ (q.device_id # "" => x.device_id = q.device_id)
                      /\ (q.room # "" => x.room = q.room)
                      /\ (q.since # <<>> => x.timestamp >= q.since[1])}
      r == resp'.readings
      returned == {x \in matching : \E i \in DOMAIN r : r[i] = ParsedReading(x)}
      rest == matching \ returned
      left == Cardinality(matching) - offset
  IN /\ resp'.status = 200
     /\ resp'.limit = limit /\ resp'.offset = offset
     \* only rows that satisfy every supplied filter, each at most once
     /\ \A i \in DOMAIN r : \E x \in matching : r[i] = ParsedReading(x)
     /\ \A i, j \in DOMAIN r : r[i] = r[j] => i = j
     \* newest first
     /\ \A i, j \in DOMAIN r : i < j => r[i].timestamp >= r[j].timestamp
     \* `offset` rows are skipped, at most `limit` are returned
     /\ Len(r) = IF left <= 0 THEN 0 ELSE Min(limit, left)
     /\ \E skipped \in SUBSET rest :
          /\ Cardinality(skipped) = Min(offset, Cardinality(matching))
          /\ \A x \in skipped, i \in DOMAIN r : x.timestamp >= r[i].timestamp
          /\ \A x \in rest \ skipped, i \in DOMAIN r :
               x.timestamp <= r[i].timestamp
          /\ \A x \in skipped, y \in rest \ skipped :
               x.timestamp >= y.timestamp
     \* three readings t1 < t2 < t3, query(limit 1, offset 0)
     /\ ( /\ Cardinality(rows) = 3
          /\ \A x, y \in rows : x.timestamp = y.timestamp => x = y
          /\ q.limit = <<1>> /\ q.offset = <<0>>
          /\ q.device_id = "" /\ q.room = "" /\ q.since = <<>> )
        => /\ Len(r) = 1
           /\ \A x \in rows : x.timestamp <= r[1].timestamp

\* C6: query returns exactly the rows that satisfy all supplied filters
\* together (device_id equal, room equal, timestamp >= since), newest
\* timestamp first, skips `offset` of them and returns at most `limit`; an
\* unset limit is 50 and an unset offset 0; after three readings with
\* timestamps t1 < t2 < t3, query(limit 1, offset 0) returns exactly the t3
\* reading.
C6_Query ==
  [][\A q \in Queries :
       ( /\ resp'.op = "query"
         /\ q.limit # <<>> => resp'.limit = q.limit[1]
         /\ q.offset # <<>> => resp'.offset = q.offset[1]
         /\ GetReadings(q) ) => C6Post(q)]_vars

\* Three readings with different timestamps are stored and a query with
\* limit 1 and offset 0 has answered with the newest of them.
C6_Witness ==
  /\ Cardinality(rows) = 3
  /\ \A x, y \in rows : x.timestamp = y.timestamp => x = y
  /\ resp.op = "query" /\ resp.status = 200
  /\ resp.limit = 1 /\ resp.offset = 0
  /\ Len(resp.readings) = 1
  /\ resp.readings[1].timestamp = MaxTs

(***************************************************************************)
(* SpecDecode: GET /readings and GET /export on stores that saves and      *)
(* imports have filled with data that are objects and data that are texts. *)
(***************************************************************************)
DecodeBodies ==
  {SaveBody(Obj("a"), "r1", "", 1), SaveBody(Str("x"), "r1", "d1", 1)}

DecodeCandidates ==
  {Reading(0, dev, "r2", ts, data) :
     dev \in {"", "d1"}, ts \in 1..2,
     data \in {Obj("b"), Str("x"), Str("{a}")}}

NextDecode ==
  \/ \E body \in DecodeBodies : SaveReading(body)
  \/ \E c \in DecodeCandidates : ImportBatch(ImportBody(<<c>>))
  \/ resp.op # "query" /\ GetReadings(Query(<<>>, <<>>, "", "", <<>>))
  \/ ExportReadings
  \/ DeleteAll

SpecDecode == Init /\ [][NextDecode]_vars

\* C22: after any sequence of saveReading and importBatch operations the
\* sensor_data of every stored row is valid JSON, so getReadings and
\* exportReadings never fail while decoding a stored row.
C22_ValidJson ==
  /\ \A x \in rows : JSONparse(x.sensor_data) # SyntaxError
  /\ resp.op \in {"query", "export"} => resp.status = 200

\* What saveReading alone keeps: the sensor_data of the row it writes is the
\* JSON encoding of the data of its payload, a text included.
C22_ValidJsonSaved ==
  [][\A body \in DecodeBodies :
       (SaveReading(body) /\ resp'.status = 201)
         => \E x \in rows' :
              /\ x.timestamp = resp'.timestamp
              /\ JSONparse(x.sensor_data) = body.data]_vars

(***************************************************************************)
(* SpecConcurrent: requests that are in flight at the same time.  The      *)
(* server is one process with one event loop; the handlers of the storage  *)
(* routes and the calls into bun:sqlite are synchronous, so a handler that *)
(* has been entered returns before another one is entered.  The handler of *)
(* POST /import is taken apart into the iterations of its loop, each of    *)
(* which is a statement of its own on the database (no transaction).       *)
(***************************************************************************)
\* The loop of POST /import that awaits between two iterations.
importYields_eachIteration == TRUE

\* The loop of POST /import has no await: the event loop enters no other
\* handler before this one has returned.
importYields == FALSE

\* The event loop may enter a handler.
MayEnter == running = Idle \/ importYields

\* POST /import is entered with an array of readings.
StartImport(body) ==
  /\ running = Idle
  /\ body.isArray
  /\ nextId + Len(body.readings) <= MaxGen + 1
  /\ running' = [op |-> "import", readings |-> body.readings,
                 rest |-> body.readings, imported |-> 0, errors |-> 0]
  /\ UNCHANGED <<rows, now, nextId, resp, exported, snapshot, rt, haVars, uiVars>>

\* One iteration of `for (const reading of readings)`.
ImportIteration ==
  /\ running.op = "import"
  /\ running.rest # <<>>
  /\ LET st == importOne([rows |-> rows, nextId |-> nextId,
                          imported |-> running.imported,
                          errors |-> running.errors],
                         Head(running.rest), now)
     IN /\ rows' = st.rows
        /\ nextId' = st.nextId
        /\ running' = [running EXCEPT !.rest = Tail(@),
                                      !.imported = st.imported,
                                      !.errors = st.errors]
  /\ UNCHANGED <<now, resp, exported, snapshot, rt, haVars, uiVars>>

\* res.json({success, imported, errors, total}) after the loop.
EndImport ==
  /\ running.op = "import"
  /\ running.rest = <<>>
  /\ resp' = [NoResp EXCEPT !.op = "import", !.status = 200,
                !.imported = running.imported, !.errors = running.errors,
                !.total = Len(running.readings)]
  /\ running' = Idle
  /\ EndRoundTrip
  /\ UNCHANGED <<rows, now, nextId, haVars, uiVars>>

\* Two saves with the same non-NULL pair and different payloads, and one
\* without device_id.
ConcurrentBodies ==
  {SaveBody(Obj("a"), "r1", "d1", 1), SaveBody(Obj("b"), "r2", "d1", 1),
   SaveBody(Obj("a"), "r1", "", 1)}

\* Batches of two candidates: accepted ones and one that lacks its room.
ConcurrentCandidates ==
  {Reading(0, "d1", "r2", 2, Obj("b")), Reading(0, "", "r1", 1, Obj("b")),
   Reading(0, "", "", 1, Obj("a"))}

ConcurrentBatches ==
  {ImportBody(<<c1, c2>>) : c1, c2 \in ConcurrentCandidates}

\* A request that reads: GET /readings, GET /export, GET /stats.
ReadRequest ==
  \/ resp.op # "query" /\ GetReadings(Query(<<>>, <<>>, "", "", <<>>))
  \/ resp.op # "export" /\ ExportReadings
  \/ resp.op # "stats" /\ GetStats

NextConcurrent ==
  \/ \E body \in ConcurrentBatches : StartImport(body)
  \/ ImportIteration
  \/ EndImport
  \/ MayEnter /\ \E body \in ConcurrentBodies : SaveReading(body)
  \/ MayEnter /\ ReadRequest

SpecConcurrent == Init /\ [][NextConcurrent]_vars

\* An import has inserted some of the readings of its batch that it
\* accepts, and not yet all of them.
PartiallyApplied ==
  /\ running.op = "import"
  /\ running.imported > 0
  /\ importLoop([rows |-> rows, nextId |-> nextId,
                 imported |-> running.imported, errors |-> running.errors],
                running.rest, now).imported > running.imported

Char(s, i) == SubSeq(s, i, i)

UpperCaseLetters == "ABCDEFGHIJKLMNOPQRSTUVWXYZ"
LowerCaseLetters == "abcdefghijklmnopqrstuvwxyz"

toLowerCaseChar(c) ==
  IF \E i \in 1..26 : Char(UpperCaseLetters, i) = c
    THEN Char(LowerCaseLetters,
              CHOOSE i \in 1..26 : Char(UpperCaseLetters, i) = c)
    ELSE c

\* String.prototype.toLowerCase
RECURSIVE toLowerCase(_)
toLowerCase(s) ==
  IF s = "" THEN "" ELSE toLowerCaseChar(Char(s, 1)) \o toLowerCase(Tail(s))

\* s.replace(/_/g, '')
RECURSIVE removeUnderscores(_)
removeUnderscores(s) ==
  IF s = ""
    THEN ""
    ELSE (IF Char(s, 1) = "_" THEN "" ELSE Char(s, 1))
         \o removeUnderscores(Tail(s))

\* String.prototype.includes
includes(s, name) ==
  \E i \in 0..(Len(s) - Len(name)) : SubSeq(s, i + 1, i + Len(name)) = name

\* s.split('_'): the parts between the underscores, at least one part.
RECURSIVE split(_)
split(s) ==
  IF \A i \in 1..Len(s) : Char(s, i) # "_"
    THEN <<s>>
    ELSE LET k == CHOOSE i \in 1..Len(s) :
                    Char(s, i) = "_" /\ \A j \in 1..(i - 1) : Char(s, j) # "_"
         IN <<SubSeq(s, 1, k - 1)>> \o split(SubSeq(s, k + 1, Len(s)))

\* s.replace(/^sensor\./, '')
stripSensorDomain(s) ==
  IF Len(s) >= 7 /\ SubSeq(s, 1, 7) = "sensor."
    THEN SubSeq(s, 8, Len(s))
    ELSE s

\* s.replace(new RegExp(`^${prefix}_`, 'i'), ''), for a prefix of letters,
\* digits and underscores.
stripPrefix(s, prefix) ==
  LET n == Len(prefix) + 1
  IN IF Len(s) >= n /\ toLowerCase(SubSeq(s, 1, n)) = toLowerCase(prefix \o "_")
       THEN SubSeq(s, n + 1, Len(s))
       ELSE s

\* parseEntityId that takes the part after the device for the sensor.
parseEntityId_secondPart(entityId, prefix) ==
  LET cleanId == stripSensorDomain(entityId)
      withoutPrefix == stripPrefix(cleanId, prefix)
      parts == split(withoutPrefix)
  IN IF Len(parts) < 2
       THEN [device |-> IF parts[1] # "" THEN parts[1] ELSE "unknown",
             sensor |-> "unknown"]
       ELSE [device |-> parts[1], sensor |-> parts[2]]

\* parseEntityId
parseEntityId(entityId, prefix) ==
  LET cleanId == stripSensorDomain(entityId)
      withoutPrefix == stripPrefix(cleanId, prefix)
      parts == split(withoutPrefix)
  IN IF Len(parts) < 2
       THEN [device |-> IF parts[1] # "" THEN parts[1] ELSE "unknown",
             sensor |-> "unknown"]
       ELSE [device |-> parts[1], sensor |-> parts[Len(parts)]]

\* ENTITY_MAPPINGS, in the order of Object.entries.
ENTITY_MAPPINGS ==
  << <<"pm25", <<"pm_2_5", "pm25", "pm_2.5", "pm_2_5_concentration",
                 "particulate_matter_2_5", "particulate_matter_25">> >>,
     <<"pm10", <<"pm_10", "pm10", "pm_10_concentration",
                 "particulate_matter_10", "particulate_matter_100">> >>,
     <<"pm_1um", <<"pm_1_0", "pm1", "pm_1", "pm_1_0_concentration",
                   "particulate_matter_1_0", "particulate_matter_10">> >>,
     <<"pm_4um", <<"pm_4_0", "pm4", "pm_4", "pm_4_0_concentration",
                   "particulate_matter_4_0", "particulate_matter_40">> >>,
     <<"co2", <<"co2", "carbon_dioxide", "co2_concentration",
                "carbondioxide">> >>,
     <<"voc", <<"voc", "tvoc", "volatile_organic_compounds", "voc_index",
                "total_volatile_organic_compounds">> >>,
     <<"humidity", <<"humidity", "relative_humidity", "rh">> >>,
     <<"temperature", <<"temperature", "temp", "air_temperature">> >>,
     <<"pressure", <<"pressure", "atmospheric_pressure", "air_pressure",
                     "barometric_pressure">> >>,
     <<"nox", <<"nox", "nitrogen_oxides", "nox_index", "nitrogen_oxide">> >>,
     <<"rssi", <<"rssi", "wifi_signal", "signal_strength", "wifi_rssi">> >> >>

\* JavaScript null, the result of a match that finds no type.
null == "null"

\* The characters outside ASCII that units are written with.
Degree == "<deg>"
Micro == "<micro>"
Cubed == "<sup3>"

deviceClassMap ==
  [pm25 |-> "pm25", pm10 |-> "pm10", pm1 |-> "pm_1um", pm4 |-> "pm_4um",
   carbon_dioxide |-> "co2", volatile_organic_compounds |-> "voc",
   humidity |-> "humidity", temperature |-> "temperature",
   pressure |-> "pressure", nitrogen_oxides |-> "nox",
   signal_strength |-> "rssi"]

unitMap ==
  (Micro \o "g/m" \o Cubed) :> "pm25" @@ "ppm" :> "co2" @@ "%" :> "humidity"
  @@ (Degree \o "c") :> "temperature" @@ (Degree \o "f") :> "temperature"
  @@ "hpa" :> "pressure" @@ "mbar" :> "pressure" @@ "dbm" :> "rssi"

\* possibleNames.some(name =>
\*   normalizedSensor.includes(name.toLowerCase().replace(/_/g, '')))
someNameIncluded(normalizedSensor, possibleNames) ==
  \E i \in DOMAIN possibleNames :
    includes(normalizedSensor, removeUnderscores(toLowerCase(possibleNames[i])))

\* The attribute lookups of extractSensorType; an attribute that is absent
\* or not a string is "".  No device_class or unit of this model is a name
\* that Object.prototype defines.
byDeviceClass(attributes) ==
  LET deviceClass == toLowerCase(attributes.device_class)
  IN IF attributes.device_class # "" /\ deviceClass \in DOMAIN deviceClassMap
       THEN deviceClassMap[deviceClass]
       ELSE null
byUnit(attributes) ==
  LET unit == toLowerCase(attributes.unit_of_measurement)
  IN IF attributes.unit_of_measurement # "" /\ unit \in DOMAIN unitMap
       THEN unitMap[unit]
       ELSE null
byEntityId(entityId, prefix) ==
  LET normalizedSensor == toLowerCase(parseEntityId(entityId, prefix).sensor)
      hits == {i \in DOMAIN ENTITY_MAPPINGS :
                 someNameIncluded(normalizedSensor, ENTITY_MAPPINGS[i][2])}
  IN IF hits = {}
       THEN null
       ELSE ENTITY_MAPPINGS[CHOOSE i \in hits : \A j \in hits : i <= j][1]

\* extractSensorType with the device_class lookup before the entity id.
extractSensorType_classFirst(entityId, attributes, prefix) ==
  IF byDeviceClass(attributes) # null THEN byDeviceClass(attributes)
  ELSE IF byEntityId(entityId, prefix) # null THEN byEntityId(entityId, prefix)
  ELSE byUnit(attributes)

\* extractSensorType
extractSensorType(entityId, attributes, prefix) ==
  IF byEntityId(entityId, prefix) # null THEN byEntityId(entityId, prefix)
  ELSE IF byDeviceClass(attributes) # null THEN byDeviceClass(attributes)
  ELSE byUnit(attributes)

(***************************************************************************)
(* SpecMatch: extractSensorType applied to one entity of Home Assistant.   *)
(***************************************************************************)
Attributes(device_class, unit_of_measurement) ==
  [device_class |-> device_class, unit_of_measurement |-> unit_of_measurement]

\* Entity ids under the prefix air1: aliases in lower and upper case, the
\* punctuated alias pm_2_5, two-part sensor names and unknown names.
MatchIds ==
  {"sensor.air1_bedroom_co2", "sensor.AIR1_Bedroom_CO2",
   "sensor.air1_bedroom_pm_2_5", "sensor.air1_bedroom_pm25",
   "sensor.air1_bedroom_pm10", "sensor.air1_bedroom_temperature",
   "sensor.air1_kitchen_relative_humidity",
   "sensor.air1_bedroom_carbon_dioxide", "sensor.air1_bedroom_foo",
   "sensor.air1_bedroom_uptime"}

MatchInputs ==
  {[op |-> "entity", entity_id |-> id, prefix |-> "air1",
    attributes |-> Attributes(dc, unit)] :
     id \in MatchIds,
     dc \in {"", "temperature", "carbon_dioxide", "Humidity", "battery"},
     unit \in {"", "ppm", "%", Degree \o "F", "lx"}}

MatchInit == StoreInit /\ UiInit /\ ha \in MatchInputs /\ out = NoOut

\* The call extractSensorType(entity.entity_id, entity.attributes, prefix).
MatchType ==
  /\ out.op = "none"
  /\ out' = [op |-> "match",
             type |-> extractSensorType(ha.entity_id, ha.attributes, ha.prefix)]
  /\ UNCHANGED <<ha, storeVars, uiVars>>

SpecMatch == MatchInit /\ [][MatchType]_vars

\* The types one of whose aliases the sensor part of the entity id matches.
SuffixTypes ==
  LET sensor == toLowerCase(parseEntityId(ha.entity_id, ha.prefix).sensor)
  IN {ENTITY_MAPPINGS[i][1] : i \in
        {j \in DOMAIN ENTITY_MAPPINGS :
           \E k \in DOMAIN ENTITY_MAPPINGS[j][2] :
             includes(sensor,
                      removeUnderscores(toLowerCase(ENTITY_MAPPINGS[j][2][k])))}}
ClassTypes ==
  {deviceClassMap[k] : k \in {c \in DOMAIN deviceClassMap :
                                c = toLowerCase(ha.attributes.device_class)}}
UnitTypes ==
  {unitMap[k] : k \in {u \in DOMAIN unitMap :
                         u = toLowerCase(ha.attributes.unit_of_measurement)}}

EndsWith(s, t) ==
  Len(s) >= Len(t) /\ SubSeq(s, Len(s) - Len(t) + 1, Len(s)) = t

\* C8: an identifier whose sensor suffix is pm_2_5 is matched as pm25 and one
\* whose suffix is co2 as co2, whatever the case of its letters and whether
\* or not suffix and alias agree in underscores and dots; an unrecognized
\* suffix with neither device_class nor unit_of_measurement gives null.
C8_Suffix ==
  out.op = "match" =>
    /\ EndsWith(toLowerCase(ha.entity_id), "_pm_2_5") => out.type = "pm25"
    /\ EndsWith(toLowerCase(ha.entity_id), "_co2") => out.type = "co2"
    /\ ( /\ EndsWith(ha.entity_id, "_foo")
         /\ ha.attributes = Attributes("", "") ) => out.type = null

\* The part of C8 that holds: co2 in either case, and the unknown suffix.
C8_SuffixCo2 ==
  out.op = "match" =>
    /\ EndsWith(toLowerCase(ha.entity_id), "_co2") => out.type = "co2"
    /\ ( /\ EndsWith(ha.entity_id, "_foo")
         /\ ha.attributes = Attributes("", "") ) => out.type = null

(***************************************************************************)
(* SpecParse: parseEntityId applied to identifiers put together from a     *)
(* domain, the prefix in either case and up to MaxParts parts.             *)
(***************************************************************************)
MaxParts == 3

\* The parts of an identifier: names, and the empty part that two
\* underscores in a row or an underscore at the end leave.
Parts == {"bedroom", "pm", "co2", ""}

\* The parts with an underscore between each two of them.
RECURSIVE underscored(_)
underscored(parts) ==
  IF Len(parts) = 1
    THEN parts[1]
    ELSE parts[1] \o "_" \o underscored(Tail(parts))

\* A configured prefix, and what the identifier has in its place.
Prefixes ==
  {<<"air1", "air1_">>, <<"air1", "AIR1_">>, <<"air1", "">>,
   <<"apollo_air_1", "apollo_air_1_">>}

ParseInputs ==
  {[op |-> "id", entity_id |-> domain \o p[2] \o underscored(parts),
    prefix |-> p[1], parts |-> parts] :
     domain \in {"sensor.", ""}, p \in Prefixes,
     parts \in SeqsUpTo(Parts, MaxParts) \ {<<>>}}

ParseInit == StoreInit /\ UiInit /\ ha \in ParseInputs /\ out = NoOut

ParseEntityId ==
  /\ out.op = "none"
  /\ out' = [op |-> "parseEntityId",
             parsed |-> parseEntityId(ha.entity_id, ha.prefix)]
  /\ UNCHANGED <<ha, storeVars, uiVars>>

SpecParse == ParseInit /\ [][ParseEntityId]_vars

C19_WitnessUnknown ==
  /\ out.op = "parseEntityId"
  /\ ha.entity_id = "sensor.air1_"
  /\ out.parsed = [device |-> "unknown", sensor |-> "unknown"]

(***************************************************************************)
(* The value normalizer of ha-client.ts.  A number is held in thousandths  *)
(* (75.5 is 75500) and arithmetic on it is exact.                          *)
(***************************************************************************)
Number(m) == [isNumber |-> TRUE, m |-> m]
NaN == [isNumber |-> FALSE, m |-> 0]

\* Number.parseFloat of the state texts Home Assistant sends in this model.
parseFloat(text) ==
  CASE text = "75.5" -> Number(75500)
    [] text = "68.0" -> Number(68000)
    [] text = "22.5" -> Number(22500)
    [] text = "-40" -> Number(-40000)
    [] text = "21.126" -> Number(21126)
    [] text = "2.0" -> Number(2000)
    [] text = "30.875" -> Number(30875)
    [] text = "33.125" -> Number(33125)
    [] text = "-40.125" -> Number(-40125)
    [] text = "-0.125" -> Number(-125)
    [] text = "0.125" -> Number(125)
    [] OTHER -> NaN

\* Math.round(num / den) for den > 0: the nearest integer, a half goes up.
MathRound(num, den) == (2 * num + den) \div (2 * den)

\* Math.round((((value - 32) * 5) / 9) * 100) / 100
fahrenheitToCelsius(m) == MathRound(m - 32000, 18) * 10

\* Math.round((value + entity._offset) * 100) / 100
applyOffset(m, offset) == MathRound(m + offset, 10) * 10

\* What the source file of the Bun server holds where the degree sign of
\* the unit should be (U+C9F8).
Garbled == "<c9f8>"

\* normalize that takes a state without number for 0 when the entity has a
\* calibration offset.
normalize_nullAsZero(entity, sensorType, value, unit, fahrenheit, celsius) ==
  LET convert == sensorType = "temperature" /\ value.isNumber
                 /\ unit = fahrenheit
      converted == IF convert THEN Number(fahrenheitToCelsius(value.m))
                              ELSE value
      final == IF entity.offset.isNumber
                 THEN Number(applyOffset(converted.m, entity.offset.m))
                 ELSE converted
  IN [sensor_type |-> sensorType, value |-> final,
      unit |-> IF convert THEN celsius ELSE unit]

\* The steps that the two variants of the transformation share: value is the
\* parsed state or NaN (null), unit the unit or "" (null), fahrenheit the unit
\* text that the variant compares with.
normalize(entity, sensorType, value, unit, fahrenheit, celsius) ==
  LET convert == sensorType = "temperature" /\ value.isNumber
                 /\ unit = fahrenheit
      converted == IF convert THEN Number(fahrenheitToCelsius(value.m))
                              ELSE value
      final == IF converted.isNumber /\ entity.offset.isNumber
                 THEN Number(applyOffset(converted.m, entity.offset.m))
                 ELSE converted
  IN [sensor_type |-> sensorType, value |-> final,
      unit |-> IF convert THEN celsius ELSE unit]

\* transformEntity (the axios client)
transformEntity(entity, prefix) ==
  LET sensorType ==
        extractSensorType(entity.entity_id, entity.attributes, prefix)
      value == IF entity.state # "" /\ entity.state # "unknown"
                  /\ entity.state # "unavailable"
                 THEN parseFloat(entity.state)
                 ELSE NaN
  IN normalize(entity, sensorType, value,
               entity.attributes.unit_of_measurement,
               Degree \o "F", Degree \o "C")

\* transformEntityToSensorData (the fetch client), for one entity
transformEntityToSensorData(entity, prefix) ==
  LET sensorType ==
        extractSensorType(entity.entity_id, entity.attributes, prefix)
  IN normalize(entity, sensorType, parseFloat(entity.state),
               entity.attributes.unit_of_measurement,
               Garbled \o "F", Garbled \o "C")

(***************************************************************************)
(* SpecNormalize: both variants of the transformation applied to one       *)
(* entity of Home Assistant.                                               *)
(***************************************************************************)
NoOffset == NaN

\* Entities: a temperature by its id, a temperature by its device_class and
\* a co2 sensor; units Fahrenheit, Celsius, the garbled Fahrenheit and none;
\* numeric and non-numeric states; with and without calibration offset.
NormalizeInputs ==
  {[op |-> "entity", entity_id |-> id, prefix |-> "air1",
    attributes |-> Attributes(dc, unit), state |-> state, offset |-> offset] :
     id \in {"sensor.air1_bedroom_temperature", "sensor.air1_bedroom_foo",
             "sensor.air1_bedroom_co2"},
     dc \in {"", "temperature"},
     unit \in {Degree \o "F", Degree \o "C", Garbled \o "F", ""},
     state \in {"75.5", "68.0", "22.5", "-40", "21.126", "unavailable"},
     offset \in {NoOffset, Number(2000), Number(-1500), Number(4)}}

NormalizeInit == StoreInit /\ UiInit /\ ha \in NormalizeInputs /\ out = NoOut

Result(op, data) ==
  [op |-> op, sensor_type |-> data.sensor_type, value |-> data.value,
   unit |-> data.unit]

TransformEntity ==
  /\ out.op = "none"
  /\ out' = Result("transformEntity", transformEntity(ha, ha.prefix))
  /\ UNCHANGED <<ha, storeVars, uiVars>>

TransformEntityToSensorData ==
  /\ out.op = "none"
  /\ out' = Result("transformEntityToSensorData",
                   transformEntityToSensorData(ha, ha.prefix))
  /\ UNCHANGED <<ha, storeVars, uiVars>>

NextNormalize == TransformEntity \/ TransformEntityToSensorData

SpecNormalize == NormalizeInit /\ [][NextNormalize]_vars

\* round2 of the rational num / den thousandths (den > 0): the multiple of
\* 0.01 that is nearest to it; a value half way between two goes away from
\* zero.
Abs(x) == IF x < 0 THEN -x ELSE x
round2(num, den) ==
  LET hundredths == (2 * Abs(num) + 10 * den) \div (20 * den)
  IN IF num < 0 THEN -10 * hundredths ELSE 10 * hundredths

\* round2(round2((f - 32) * 5 / 9) + o), o = 0 without offset.
C1Expected(f, o) == round2(round2((f - 32000) * 5, 9) + o, 1)

Transformed == out.op \in {"transformEntity", "transformEntityToSensorData"}

\* C1: for every temperature entity whose unit is Fahrenheit, with numeric
\* state f and calibration offset o, the normalized value is
\* round2(round2((f - 32) * 5 / 9) + o) and the reported unit is Celsius;
\* f = 75.5, o = 2.0 gives 26.17, f = 68.0, o = -1.5 gives 18.5 and f = 75.5
\* without offset gives 24.17.
C1_Fahrenheit ==
  ( /\ Transformed
    /\ out.sensor_type = "temperature"
    /\ ha.attributes.unit_of_measurement = Degree \o "F"
    /\ parseFloat(ha.state).isNumber )
  => LET f == parseFloat(ha.state).m
         o == IF ha.offset.isNumber THEN ha.offset.m ELSE 0
     IN /\ out.value = Number(C1Expected(f, o))
        /\ out.unit = Degree \o "C"
        /\ (f = 75500 /\ o = 2000) => out.value = Number(26170)
        /\ (f = 68000 /\ o = -1500) => out.value = Number(18500)
        /\ (f = 75500 /\ ~ha.offset.isNumber) => out.value = Number(24170)

\* C1 for the axios client alone.
C1_FahrenheitAxios ==
  out.op = "transformEntity" => C1_Fahrenheit

(***************************************************************************)
(* SpecRound: both variants of the transformation applied to temperatures  *)
(* whose conversion or calibration ends half way between two hundredths.   *)
(***************************************************************************)
\* (30.875 - 32) * 5 / 9 = -0.625 and (33.125 - 32) * 5 / 9 = 0.625;
\* -40.125 + 2 = -38.125; every state, offset, sum and quotient here is a
\* multiple of 1/8, which a double holds exactly.
RoundInputs ==
  {[op |-> "entity", entity_id |-> id, prefix |-> "air1",
    attributes |-> Attributes("", unit), state |-> state, offset |-> offset] :
     id \in {"sensor.air1_bedroom_temperature", "sensor.air1_bedroom_co2"},
     unit \in {Degree \o "F", Degree \o "C", Garbled \o "F"},
     state \in {"22.5", "30.875", "33.125", "-40.125", "-0.125", "0.125",
                "unknown"},
     offset \in {NoOffset, Number(2000), Number(0)}}

RoundInit == StoreInit /\ UiInit /\ ha \in RoundInputs /\ out = NoOut

SpecRound == RoundInit /\ [][NextNormalize]_vars

\* A temperature whose unit is Celsius, with a numeric state and an offset,
\* has been transformed.
CelsiusWithOffset ==
  /\ Transformed
  /\ out.sensor_type = "temperature"
  /\ ha.attributes.unit_of_measurement = Degree \o "C"
  /\ parseFloat(ha.state).isNumber
  /\ ha.offset.isNumber

\* C16: for every temperature entity whose unit is Celsius, with numeric
\* state v and calibration offset o, no unit conversion occurs: the
\* normalized value is round2(v + o) and the reported unit stays Celsius;
\* 22.5 with offset 2.0 gives 24.5.
C16_Celsius ==
  CelsiusWithOffset
  => LET v == parseFloat(ha.state).m
         o == ha.offset.m
     IN /\ out.value = Number(round2(v + o, 1))
        /\ out.unit = Degree \o "C"
        /\ (v = 22500 /\ o = 2000) => out.value = Number(24500)

\* C16 for the sums that are not below zero, where a half goes up and away
\* from zero alike.
C16_CelsiusNotNegative ==
  (CelsiusWithOffset /\ parseFloat(ha.state).m + ha.offset.m >= 0)
  => C16_Celsius

\* The multiple of 0.01 nearest to num / den thousandths, a half going up.
roundHalfUp(num, den) == 10 * ((2 * num + 10 * den) \div (20 * den))

\* The steps of normalize that round, applied to the numeric state v of the
\* entity transformed with a half going away from zero, and with a half
\* going up: a conversion took place if the unit reported differs from the
\* unit received.
Converted == out.unit # ha.attributes.unit_of_measurement

StepsHalfAwayFromZero(v) ==
  LET converted == IF Converted THEN round2((v - 32000) * 5, 9) ELSE v
  IN IF ha.offset.isNumber THEN round2(converted + ha.offset.m, 1)
                           ELSE converted

StepsHalfUp(v) ==
  LET converted == IF Converted THEN roundHalfUp((v - 32000) * 5, 9) ELSE v
  IN IF ha.offset.isNumber THEN roundHalfUp(converted + ha.offset.m, 1)
                           ELSE converted

\* C18: each rounding step of normalize, after the Fahrenheit-to-Celsius
\* conversion and after adding the offset, rounds to 2 decimal places with
\* ties rounded away from zero, for negative as well as positive values.
C18_HalfAwayFromZero ==
  (Transformed /\ parseFloat(ha.state).isNumber)
  => out.value = Number(StepsHalfAwayFromZero(parseFloat(ha.state).m))

\* What the steps do: they round a half up, towards positive infinity.
C18_HalfUp ==
  (Transformed /\ parseFloat(ha.state).isNumber)
  => out.value = Number(StepsHalfUp(parseFloat(ha.state).m))

\* C23: every value that normalize returns and that is not null is rounded
\* to 2 decimal places, also when it needed neither a unit conversion nor an
\* offset.
C23_Rounded ==
  (Transformed /\ out.value.isNumber) => out.value.m % 10 = 0

\* The values that a conversion or an offset has gone into are rounded.
C23_RoundedAfterStep ==
  (Transformed /\ out.value.isNumber /\ (Converted \/ ha.offset.isNumber))
  => out.value.m % 10 = 0

(***************************************************************************)
(* groupEntitiesByDevice.  The mapping `grouped` is a JavaScript object    *)
(* literal: a function from its own keys to lists, that answers a lookup   *)
(* of a name of Object.prototype with the inherited member.                *)
(***************************************************************************)
EmptyObject == [k \in {} |-> <<>>]

\* The members every object literal inherits whose names an entity id can
\* hold as its first part.
ObjectPrototypeNames ==
  {"constructor", "toString", "valueOf", "hasOwnProperty", "isPrototypeOf",
   "propertyIsEnumerable", "toLocaleString"}

\* The loop of groupEntitiesByDevice over the entities that are left:
\* `!grouped[device]` is false for an inherited member, and the member has no
\* push, so `grouped[device].push(entity)` raises a TypeError.
RECURSIVE groupLoop(_, _, _)
groupLoop(grouped, entities, prefix) ==
  IF entities = <<>>
    THEN [threw |-> FALSE, grouped |-> grouped]
    ELSE LET entity == Head(entities)
             device == parseEntityId(entity.entity_id, prefix).device
         IN IF device \in DOMAIN grouped
              THEN groupLoop([grouped EXCEPT ![device] = Append(@, entity)],
                             Tail(entities), prefix)
              ELSE IF device \in ObjectPrototypeNames
                THEN [threw |-> TRUE, grouped |-> grouped]
                ELSE groupLoop(grouped @@ (device :> <<entity>>),
                               Tail(entities), prefix)

groupEntitiesByDevice(entities, prefix) ==
  groupLoop(EmptyObject, entities, prefix)

(***************************************************************************)
(* SpecGroup: groupEntitiesByDevice applied to a list of up to MaxEntities *)
(* different entities.                                                     *)
(***************************************************************************)
Entity(id) == [entity_id |-> id]

\* Entities of the devices bedroom and kitchen, one of a device that its
\* owner named constructor, and one whose id has nothing after the prefix
\* but the sensor.
GroupEntities ==
  {Entity("sensor.air1_bedroom_co2"), Entity("sensor.air1_bedroom_temperature"),
   Entity("sensor.air1_kitchen_co2"), Entity("sensor.air1_constructor_co2"),
   Entity("sensor.air1_co2")}

\* The lists of up to n different elements of S.
ListsOf(S, n) ==
  {l \in SeqsUpTo(S, n) : \A i, j \in DOMAIN l : l[i] = l[j] => i = j}

GroupInputs ==
  {[op |-> "entities", entities |-> l, prefix |-> "air1"] :
     l \in ListsOf(GroupEntities, MaxEntities)}

GroupInit == StoreInit /\ UiInit /\ ha \in GroupInputs /\ out = NoOut

\* The call groupEntitiesByDevice(entities, prefix).
GroupByDevice ==
  /\ out.op = "none"
  /\ LET res == groupEntitiesByDevice(ha.entities, ha.prefix)
     IN out' = [op |-> "group", threw |-> res.threw, grouped |-> res.grouped]
  /\ UNCHANGED <<ha, storeVars, uiVars>>

SpecGroup == GroupInit /\ [][GroupByDevice]_vars

\* The buckets partition the input: every entity is once in the bucket of
\* its device token and in no other, entities of a bucket are in input
\* order, and no bucket is empty.
Partitioned ==
  LET e == ha.entities
      g == out.grouped
      device(i) == parseEntityId(e[i].entity_id, ha.prefix).device
      places(i) == {kj \in {<<k, j>> : k \in DOMAIN g, j \in 1..MaxEntities} :
                      kj[2] \in DOMAIN g[kj[1]] /\ g[kj[1]][kj[2]] = e[i]}
  IN /\ \A i \in DOMAIN e :
          /\ Cardinality(places(i)) = 1
          /\ \A kj \in places(i) : kj[1] = device(i)
     /\ \A k \in DOMAIN g :
          /\ g[k] # <<>>
          /\ \A j \in DOMAIN g[k] : \E i \in DOMAIN e : e[i] = g[k][j]
          /\ \A j1, j2 \in DOMAIN g[k] :
               j1 < j2 =>
                 \E i1, i2 \in DOMAIN e :
                   i1 < i2 /\ e[i1] = g[k][j1] /\ e[i2] = g[k][j2]
     /\ e = <<>> => DOMAIN g = {}

\* C9: for every list of entities, groupByDevice returns without error
\* buckets that partition the input: each entity is in exactly one bucket,
\* once, under its parsed device token; entities of one device are in input
\* order; no bucket is empty; an empty input gives an empty mapping.
C9_Partition ==
  out.op = "group" => (~out.threw /\ Partitioned)

\* C9 for the lists in which no device is named like a member of
\* Object.prototype.
C9_PartitionOwnNames ==
  ( /\ out.op = "group"
    /\ \A i \in DOMAIN ha.entities :
         parseEntityId(ha.entities[i].entity_id, ha.prefix).device
           \notin ObjectPrototypeNames )
  => (~out.threw /\ Partitioned)

(***************************************************************************)
(* Sensor discovery: fetchSensors (ha-client.ts) and GET /api/sensors      *)
(* (server.ts).  `upstream` is what GET /states of Home Assistant does:    *)
(* it fails (ok = FALSE) or answers with the list `states`.                *)
(***************************************************************************)
\* The text s starts with the text t, whatever the case of the letters.
startsWithIgnoreCase(s, t) ==
  Len(s) >= Len(t) /\ toLowerCase(SubSeq(s, 1, Len(t))) = toLowerCase(t)
endsWithIgnoreCase(s, t) ==
  Len(s) >= Len(t)
  /\ toLowerCase(SubSeq(s, Len(s) - Len(t) + 1, Len(s))) = toLowerCase(t)

\* new RegExp(`^sensor\\.${prefix}_`, 'i').test(entity_id)
sensorPattern(entity_id, prefix) ==
  startsWithIgnoreCase(entity_id, "sensor." \o prefix \o "_")

\* new RegExp(`^number\\.${prefix}_.*_offset$`, 'i').test(entity_id)
offsetPattern(entity_id, prefix) ==
  /\ startsWithIgnoreCase(entity_id, "number." \o prefix \o "_")
  /\ endsWithIgnoreCase(entity_id, "_offset")
  /\ Len(entity_id) >= Len("number." \o prefix \o "_") + Len("_offset")

\* entity_id.replace(/^sensor\./, '') and
\* entity_id.replace(/^number\./, '').replace(/_offset$/, '')
sensorBase(entity_id) == stripSensorDomain(entity_id)
offsetBase(entity_id) ==
  LET s1 == IF Len(entity_id) >= 7 /\ SubSeq(entity_id, 1, 7) = "number."
              THEN SubSeq(entity_id, 8, Len(entity_id))
              ELSE entity_id
  IN IF Len(s1) >= 7 /\ SubSeq(s1, Len(s1) - 6, Len(s1)) = "_offset"
       THEN SubSeq(s1, 1, Len(s1) - 7)
       ELSE s1

\* attachOffset that takes the first offset entity of the poll, whatever
\* sensor it belongs to.
attachOffset_first(sensor, offsets) ==
  [entity_id |-> sensor.entity_id, state |-> sensor.state,
   attributes |-> sensor.attributes,
   offset |-> IF offsets # <<>> THEN parseFloat(offsets[1].state)
                                ELSE NoOffset]

\* The offset that fetchSensors attaches to a sensor: the state of the first
\* offset entity with the base of the sensor, when that state is a number.
attachOffset(sensor, offsets) ==
  LET found == {i \in DOMAIN offsets :
                  offsetBase(offsets[i].entity_id) = sensorBase(sensor.entity_id)}
      first == CHOOSE i \in found : \A j \in found : i <= j
  IN [entity_id |-> sensor.entity_id, state |-> sensor.state,
      attributes |-> sensor.attributes,
      offset |-> IF found # {} THEN parseFloat(offsets[first].state)
                               ELSE NoOffset]

\* The try block of fetchSensors once haFetch has answered.
matchSensors(states, prefix) ==
  LET isSensor(entity) == sensorPattern(entity.entity_id, prefix)
      isOffset(entity) == offsetPattern(entity.entity_id, prefix)
      matchingSensors == SelectSeq(states, isSensor)
      offsets == SelectSeq(states, isOffset)
  IN [i \in DOMAIN matchingSensors |->
        attachOffset(matchingSensors[i], offsets)]

\* fetchSensors with a catch block that returns no sensors instead of
\* throwing.
fetchSensors_noThrow(upstream, prefix) ==
  IF ~upstream.ok
    THEN [threw |-> FALSE, entities |-> <<>>]
    ELSE [threw |-> FALSE, entities |-> matchSensors(upstream.states, prefix)]

\* fetchSensors: a failure of haFetch is thrown on.
fetchSensors(upstream, prefix) ==
  IF ~upstream.ok
    THEN [threw |-> TRUE, entities |-> <<>>]
    ELSE [threw |-> FALSE, entities |-> matchSensors(upstream.states, prefix)]

\* The keys of `grouped` in the order of Object.entries: the order in which
\* the devices first occur (no device of this model has a name that is a
\* whole number).
RECURSIVE deviceOrder(_, _, _)
deviceOrder(entities, prefix, seen) ==
  IF entities = <<>>
    THEN <<>>
    ELSE LET device == parseEntityId(Head(entities).entity_id, prefix).device
         IN IF device \in seen
              THEN deviceOrder(Tail(entities), prefix, seen)
              ELSE <<device>>
                   \o deviceOrder(Tail(entities), prefix, seen \cup {device})

\* combinedSensorData that keeps the first value of a sensor type.
combinedSensorData_firstWins(deviceEntities, prefix) ==
  LET data == [i \in DOMAIN deviceEntities |->
                 transformEntityToSensorData(deviceEntities[i], prefix)]
      kept == {i \in DOMAIN data :
                 data[i].sensor_type # null /\ data[i].value.isNumber}
      types == {data[i].sensor_type : i \in kept}
  IN [t \in types |->
        data[CHOOSE i \in kept :
               /\ data[i].sensor_type = t
               /\ \A j \in kept : data[j].sensor_type = t => i <= j].value]

\* combinedSensorData: for each sensor type the value of the last entity of
\* the device that has the type and a value.
combinedSensorData(deviceEntities, prefix) ==
  LET data == [i \in DOMAIN deviceEntities |->
                 transformEntityToSensorData(deviceEntities[i], prefix)]
      kept == {i \in DOMAIN data :
                 data[i].sensor_type # null /\ data[i].value.isNumber}
      types == {data[i].sensor_type : i \in kept}
  IN [t \in types |->
        data[CHOOSE i \in kept :
               /\ data[i].sensor_type = t
               /\ \A j \in kept : data[j].sensor_type = t => j <= i].value]

\* One element of `devices`.
Device(deviceId, deviceEntities, prefix) ==
  LET firstEntity == deviceEntities[1]
      deviceName == IF firstEntity.attributes.friendly_name # ""
                      THEN firstEntity.attributes.friendly_name
                      ELSE deviceId
  IN [entity_id |-> deviceId, device_id |-> deviceId,
      device_name |-> deviceName, room |-> null,
      sensors |-> combinedSensorData(deviceEntities, prefix)]

\* A response of GET /api/sensors; message and error are "" and count is
\* <<>> when the body has no such field.
SensorsResponse(status, success, devices, message, error, count) ==
  [op |-> "sensors", status |-> status, success |-> success,
   devices |-> devices, message |-> message, error |-> error, count |-> count]

\* app.get('/api/sensors')
apiSensors(upstream, prefix) ==
  LET fetched == fetchSensors(upstream, prefix)
      entities == fetched.entities
      res == groupEntitiesByDevice(entities, prefix)
      order == deviceOrder(entities, prefix, {})
      devices == [i \in DOMAIN order |->
                    Device(order[i], res.grouped[order[i]], prefix)]
  IN IF fetched.threw
       THEN SensorsResponse(500, FALSE, <<>>, "Failed to fetch sensors: ...",
                            "Failed to fetch sensors", <<>>)
       ELSE IF Len(entities) = 0
         THEN SensorsResponse(200, TRUE, <<>>, "No sensors found with prefix",
                              "", <<>>)
         ELSE IF res.threw
           THEN SensorsResponse(500, FALSE, <<>>, "TypeError",
                                "Failed to fetch sensors", <<>>)
           ELSE SensorsResponse(200, TRUE, devices, "", "", <<Len(devices)>>)

(***************************************************************************)
(* SpecDiscover: GET /api/sensors while Home Assistant is down or holds up *)
(* to MaxEntities entities.                                                *)
(***************************************************************************)
HAEntity(id, state, dc, unit, friendly_name) ==
  [entity_id |-> id, state |-> state,
   attributes |-> [device_class |-> dc, unit_of_measurement |-> unit,
                   friendly_name |-> friendly_name]]

\* Two sensors under the prefix, the calibration offset of one of them, a
\* sensor under the prefix whose type nothing tells, a sensor of another
\* prefix and an entity that is no sensor.
HAEntities ==
  {HAEntity("sensor.air1_bedroom_temperature", "75.5", "temperature",
            Degree \o "C", "Bedroom Temperature"),
   HAEntity("sensor.air1_kitchen_co2", "68.0", "carbon_dioxide", "ppm", ""),
   HAEntity("number.air1_bedroom_temperature_offset", "2.0", "", "", ""),
   HAEntity("sensor.air1_bedroom_uptime", "unavailable", "", "", ""),
   HAEntity("sensor.other_bedroom_co2", "22.5", "carbon_dioxide", "ppm", ""),
   HAEntity("light.kitchen", "on", "", "", "")}

Upstream(ok, states) ==
  [op |-> "states", ok |-> ok, states |-> states, prefix |-> "air1"]

DiscoverInputs ==
  {Upstream(TRUE, l) : l \in ListsOf(HAEntities, MaxEntities)}
  \cup {Upstream(FALSE, <<>>)}

DiscoverInit == StoreInit /\ UiInit /\ ha \in DiscoverInputs /\ out = NoOut

\* GET /api/sensors
GetSensors ==
  /\ out.op = "none"
  /\ out' = apiSensors(ha, ha.prefix)
  /\ UNCHANGED <<ha, storeVars, uiVars>>

SpecDiscover == DiscoverInit /\ [][GetSensors]_vars

\* The answer of Home Assistant without the sensors under the prefix that
\* match no canonical sensor type.
Typed(entity) ==
  ~sensorPattern(entity.entity_id, ha.prefix)
  \/ extractSensorType(entity.entity_id, entity.attributes, ha.prefix) # null

WithoutMatchMisses == Upstream(ha.ok, SelectSeq(ha.states, Typed))

\* C21: an entity that matches no canonical sensor type is silently excluded
\* from device assembly: discovery raises no error for it, and the device
\* records returned are the same as if that entity had not been fetched.
C21_MatchMiss ==
  (out.op = "sensors" /\ ha.ok) =>
    /\ out.status = 200 /\ out.success
    /\ out.devices = apiSensors(WithoutMatchMisses, ha.prefix).devices

\* What holds of an entity without type: no error, and no record has a
\* sensor value that the typed entities alone would not give it; a record
\* of a device that the typed entities do not make has no sensor value.
C21_MatchMissValues ==
  (out.op = "sensors" /\ ha.ok) =>
    /\ out.status = 200 /\ out.success
    /\ LET typed == apiSensors(WithoutMatchMisses, ha.prefix).devices
       IN \A i \in DOMAIN out.devices :
            \/ \E j \in DOMAIN typed :
                 /\ typed[j].device_id = out.devices[i].device_id
                 /\ typed[j].sensors = out.devices[i].sensors
            \/ /\ DOMAIN out.devices[i].sensors = {}
               /\ \A j \in DOMAIN typed :
                    typed[j].device_id # out.devices[i].device_id

(***************************************************************************)
(* SpecFetch: fetchSensors on one answer of Home Assistant that holds      *)
(* sensors and calibration offsets.                                        *)
(***************************************************************************)
\* Two sensors under the prefix; the offset of the first, an offset of the
\* second whose state is no number, and the offset of a sensor that is not
\* there; a sensor of another prefix.
FetchEntities ==
  {HAEntity("sensor.air1_bedroom_temperature", "22.5", "temperature",
            Degree \o "C", ""),
   HAEntity("number.air1_bedroom_temperature_offset", "2.0", "", "", ""),
   HAEntity("sensor.air1_bedroom_co2", "68.0", "carbon_dioxide", "ppm", ""),
   HAEntity("number.air1_bedroom_co2_offset", "unknown", "", "", ""),
   HAEntity("number.air1_kitchen_temperature_offset", "-40", "", "", ""),
   HAEntity("sensor.other_bedroom_co2", "75.5", "carbon_dioxide", "ppm", "")}

FetchInputs ==
  {Upstream(TRUE, l) : l \in ListsOf(FetchEntities, MaxEntities)}
  \cup {Upstream(FALSE, <<>>)}

FetchInit == StoreInit /\ UiInit /\ ha \in FetchInputs /\ out = NoOut

FetchSensors ==
  /\ out.op = "none"
  /\ LET fetched == fetchSensors(ha, ha.prefix)
     IN out' = [op |-> "fetchSensors", threw |-> fetched.threw,
                entities |-> fetched.entities]
  /\ UNCHANGED <<ha, storeVars, uiVars>>

SpecFetch == FetchInit /\ [][FetchSensors]_vars

\* The places of the answer of Home Assistant that hold a sensor under the
\* prefix.
SensorPlaces ==
  {j \in DOMAIN ha.states : sensorPattern(ha.states[j].entity_id, ha.prefix)}

\* The entity at place j of the answer is the companion of sensor: an offset
\* entity under the prefix whose identifier without "number." and "_offset"
\* is the identifier of the sensor without "sensor.".
Companion(j, sensor) ==
  /\ offsetPattern(ha.states[j].entity_id, ha.prefix)
  /\ offsetBase(ha.states[j].entity_id) = sensorBase(sensor.entity_id)

\* C20: fetchSensors returns exactly the upstream entities whose identifier
\* matches ^sensor\.<prefix>_, in upstream order, and never an offset
\* entity.  A returned entity has a calibration offset only from a companion
\* entity of the same poll whose state is a number, and has at most one.
C20_FetchSensors ==
  (out.op = "fetchSensors" /\ ha.ok) =>
    /\ ~out.threw
    /\ Len(out.entities) = Cardinality(SensorPlaces)
    /\ \A j \in SensorPlaces :
         LET i == Cardinality({k \in SensorPlaces : k < j}) + 1
         IN /\ out.entities[i].entity_id = ha.states[j].entity_id
            /\ out.entities[i].state = ha.states[j].state
            /\ out.entities[i].attributes = ha.states[j].attributes
    /\ \A i \in DOMAIN out.entities :
         /\ ~offsetPattern(out.entities[i].entity_id, ha.prefix)
         /\ out.entities[i].offset.isNumber
              => \E j \in DOMAIN ha.states :
                   /\ Companion(j, out.entities[i])
                   /\ parseFloat(ha.states[j].state) = out.entities[i].offset

\* A poll that returned two sensors in upstream order, the second one with
\* the offset of its companion and the first one, whose companion was not
\* fetched, without.
C20_Witness ==
  /\ out.op = "fetchSensors"
  /\ Len(out.entities) = 2
  /\ out.entities[1].entity_id = "sensor.air1_bedroom_co2"
  /\ out.entities[1].offset = NoOffset
  /\ out.entities[2].entity_id = "sensor.air1_bedroom_temperature"
  /\ out.entities[2].offset = Number(2000)

(***************************************************************************)
(* SpecRecord: the entities that one poll fetched, transformed one by one  *)
(* and assembled into device records by GET /api/sensors.                  *)
(***************************************************************************)
\* Sensors of two devices with states that are numbers, sentinels and other
\* text, and the calibration offset of a sensor whose state is a sentinel.
RecordEntities ==
  {HAEntity("sensor.air1_bedroom_temperature", "unknown", "temperature",
            Garbled \o "F", "Bedroom"),
   HAEntity("number.air1_bedroom_temperature_offset", "2.0", "", "", ""),
   HAEntity("sensor.air1_bedroom_co2", "68.0", "carbon_dioxide", "ppm", ""),
   HAEntity("sensor.air1_bedroom_humidity", "unavailable", "humidity", "%", ""),
   HAEntity("sensor.air1_kitchen_co2", "n/a", "carbon_dioxide", "ppm", "")}

RecordInputs ==
  {Upstream(TRUE, l) : l \in ListsOf(RecordEntities, MaxEntities)}

RecordInit == StoreInit /\ UiInit /\ ha \in RecordInputs /\ out = NoOut

\* An element of SensorData[]: the fields that depend on state and offset.
SensorData(entity, data) ==
  [entity_id |-> entity.entity_id, state |-> entity.state,
   sensor_type |-> data.sensor_type, value |-> data.value, unit |-> data.unit]

\* transformEntityToSensorData(entities, prefix) of the fetch client and of
\* the axios client, on the entities that fetchSensors returned.
TransformFetched ==
  /\ out.op = "none"
  /\ LET entities == fetchSensors(ha, ha.prefix).entities
     IN out' = [op |-> "transformEntityToSensorData",
                data |-> [i \in DOMAIN entities |->
                            SensorData(entities[i],
                              transformEntityToSensorData(entities[i],
                                                          ha.prefix))]]
  /\ UNCHANGED <<ha, storeVars, uiVars>>

TransformFetchedAxios ==
  /\ out.op = "none"
  /\ LET entities == fetchSensors(ha, ha.prefix).entities
     IN out' = [op |-> "transformEntity",
                data |-> [i \in DOMAIN entities |->
                            SensorData(entities[i],
                              transformEntity(entities[i], ha.prefix))]]
  /\ UNCHANGED <<ha, storeVars, uiVars>>

NextRecord == GetSensors \/ TransformFetched \/ TransformFetchedAxios

SpecRecord == RecordInit /\ [][NextRecord]_vars

\* A state that is a sentinel or that cannot be parsed as a number.
NoNumber(state) ==
  state \in {"unknown", "unavailable"} \/ ~parseFloat(state).isNumber

\* The sensors under the prefix that Home Assistant holds.
HeldSensors ==
  {ha.states[i] : i \in {j \in DOMAIN ha.states :
     startsWithIgnoreCase(ha.states[j].entity_id, "sensor." \o ha.prefix \o "_")}}

DeviceOf(e) == parseEntityId(e.entity_id, ha.prefix).device
TypeOf(e) == extractSensorType(e.entity_id, e.attributes, ha.prefix)

\* C17: when the state of an entity cannot be parsed as a number or is
\* "unknown" or "unavailable", normalization yields null and raises no error,
\* whatever the sensor type, unit and offset (nothing is converted or added);
\* the field is then absent from the device record, and the rest of the
\* device record is still produced.
C17_NullValue ==
  /\ out.op \in {"transformEntityToSensorData", "transformEntity"}
       => \A i \in DOMAIN out.data :
            NoNumber(out.data[i].state)
              => /\ out.data[i].value = NaN
                 /\ \E e \in HeldSensors :
                      /\ e.entity_id = out.data[i].entity_id
                      /\ e.attributes.unit_of_measurement = out.data[i].unit
  /\ (out.op = "sensors" /\ HeldSensors # {})
       => /\ out.status = 200 /\ out.success
          /\ {DeviceOf(e) : e \in HeldSensors}
               = {out.devices[i].device_id : i \in DOMAIN out.devices}
          /\ \A i \in DOMAIN out.devices :
               LET own == {e \in HeldSensors :
                             DeviceOf(e) = out.devices[i].device_id}
               IN DOMAIN out.devices[i].sensors
                    = {TypeOf(e) : e \in {x \in own : ~NoNumber(x.state)}}

\* The record of a device one of whose sensors has a number and another a
\* sentinel state and a calibration offset: it has the co2 field alone.
C17_Witness ==
  /\ out.op = "sensors"
  /\ \E i, j, k \in DOMAIN ha.states :
       /\ ha.states[i].entity_id = "sensor.air1_bedroom_temperature"
       /\ ha.states[j].entity_id = "number.air1_bedroom_temperature_offset"
       /\ ha.states[k].entity_id = "sensor.air1_bedroom_co2"
  /\ Len(out.devices) = 1
  /\ DOMAIN out.devices[1].sensors = {"co2"}

(***************************************************************************)
(* SpecCombine: GET /api/sensors while a device has several entities of    *)
(* one sensor type.                                                        *)
(***************************************************************************)
\* Three co2 sensors and a temperature sensor of one device, one of the co2
\* sensors without value, and a co2 sensor of another device.
CombineEntities ==
  {HAEntity("sensor.air1_bedroom_a", "68.0", "carbon_dioxide", "ppm", ""),
   HAEntity("sensor.air1_bedroom_b", "22.5", "carbon_dioxide", "ppm", ""),
   HAEntity("sensor.air1_bedroom_c", "unavailable", "carbon_dioxide", "ppm", ""),
   HAEntity("sensor.air1_bedroom_d", "-40", "temperature", Degree \o "C", ""),
   HAEntity("sensor.air1_kitchen_a", "75.5", "carbon_dioxide", "ppm", "")}

CombineInputs ==
  {Upstream(TRUE, l) : l \in ListsOf(CombineEntities, MaxEntities)}

CombineInit == StoreInit /\ UiInit /\ ha \in CombineInputs /\ out = NoOut

SpecCombine == CombineInit /\ [][GetSensors]_vars

\* The normalized value of the entity at place j of the answer of Home
\* Assistant, which holds no calibration offset here.
ValueAt(j) ==
  transformEntityToSensorData(attachOffset(ha.states[j], <<>>),
                              ha.prefix).value

\* The places of the answer that hold an entity of device d with sensor
\* type t and a value.
PlacesWithValue(d, t) ==
  {j \in DOMAIN ha.states :
     /\ sensorPattern(ha.states[j].entity_id, ha.prefix)
     /\ DeviceOf(ha.states[j]) = d
     /\ TypeOf(ha.states[j]) = t
     /\ ValueAt(j).isNumber}

\* C26: when several entities of one device resolve to the same canonical
\* sensor type, the device record has exactly one value for that type: the
\* normalized value of the last such entity in upstream order whose value is
\* not null; an entity without value neither removes nor overwrites a value
\* that an earlier entity set.
C26_LastWins ==
  out.op = "sensors" =>
    \A i \in DOMAIN out.devices :
      \A t \in {"co2", "temperature"} :
        LET places == PlacesWithValue(out.devices[i].device_id, t)
            last == CHOOSE j \in places : \A k \in places : k <= j
        IN IF places = {}
             THEN t \notin DOMAIN out.devices[i].sensors
             ELSE /\ t \in DOMAIN out.devices[i].sensors
                  /\ out.devices[i].sensors[t] = ValueAt(last)

\* A device with two co2 values and, after them, a co2 sensor without
\* value: the record has the second value.
C26_Witness ==
  /\ out.op = "sensors"
  /\ Len(ha.states) = 3
  /\ ha.states[1].entity_id = "sensor.air1_bedroom_a"
  /\ ha.states[2].entity_id = "sensor.air1_bedroom_b"
  /\ ha.states[3].entity_id = "sensor.air1_bedroom_c"
  /\ Len(out.devices) = 1
  /\ out.devices[1].sensors = [t \in {"co2"} |-> Number(22500)]

\* No entity that Home Assistant holds is a sensor under the prefix.
NoneMatches ==
  \A i \in DOMAIN ha.states :
    ~startsWithIgnoreCase(ha.states[i].entity_id, "sensor." \o ha.prefix \o "_")

\* C10: discovery answers with success, an empty device list and a message
\* when the fetch succeeds and no entity matches the prefix, and with an
\* error (never with an empty success) when the fetch fails, so that the
\* caller can tell the two apart.
C10_EmptyOrError ==
  out.op = "sensors" =>
    /\ (ha.ok /\ NoneMatches)
         => /\ out.status = 200 /\ out.success
            /\ out.devices = <<>> /\ out.message # "" /\ out.error = ""
    /\ ~ha.ok
         => /\ out.status = 500 /\ ~out.success
            /\ out.error # "" /\ out.count = <<>>
    /\ out.success => ha.ok

\* Home Assistant holds entities, none of them under the prefix, and the
\* discovery has answered with success, no devices and a message.
C10_Witness ==
  /\ out.op = "sensors" /\ ha.ok /\ ha.states # <<>> /\ NoneMatches
  /\ out.success /\ out.devices = <<>> /\ out.message # ""

(***************************************************************************)
(* SpecDashboard: the Dashboard component and its storage client.  The     *)
(* requests of one handler are answered before the next handler runs.      *)
(***************************************************************************)
\* `data().pm25 || data().co2 || data().humidity`
hasData(d) == d.t = "object" /\ d.v # ""

\* `{ ...emptyData, ...latest.data }`
mergeEmptyData(d) == IF d.t = "object" THEN d ELSE emptyData

\* The Reading that storage-api getReadings makes of a reading of GET
\* /readings; its time and date are texts made of the timestamp.
toReading(r) ==
  [id |-> r.id, data |-> r.data, room |-> r.room, timestamp |-> r.timestamp]

\* The limit that loadHistory asks for.
HistoryLimit == 50

\* The answer of GET /readings?limit=50 when the SELECT returns s, and the
\* history that loadHistory makes of it: the readings in the order of the
\* answer, or none when the request fails.
historyResponse(s) ==
  IF ParseThrows(s)
    THEN [NoResp EXCEPT !.op = "query", !.status = 500]
    ELSE [NoResp EXCEPT !.op = "query", !.status = 200,
            !.readings = ParsedReadings(s),
            !.limit = HistoryLimit, !.offset = 0]
loadHistory(s) ==
  IF ParseThrows(s)
    THEN <<>>
    ELSE [i \in DOMAIN s |-> toReading(ParsedReading(s[i]))]

\* `const latest = hist[hist.length - 1]` is shown and marked as viewed, and
\* `hist[hist.length - 2]`, when there is one, is selected for comparison.
showLatest(d, hist) ==
  [d EXCEPT !.data = mergeEmptyData(hist[Len(hist)].data),
            !.room = hist[Len(hist)].room,
            !.viewingId = hist[Len(hist)].id,
            !.compareId = IF Len(hist) > 1 THEN hist[Len(hist) - 1].id ELSE @]

\* onMount
OnMount ==
  /\ dash.loading
  /\ \E s \in getReadings(rows, HistoryLimit, 0, "", "", 0) :
       LET hist == loadHistory(s)
       IN /\ resp' = historyResponse(s)
          /\ dash' = IF Len(hist) > 0
                       THEN [showLatest(dash, hist) EXCEPT
                               !.history = hist, !.loading = FALSE,
                               !.status = "Loaded latest"]
                       ELSE [dash EXCEPT !.history = hist, !.loading = FALSE]
  /\ UNCHANGED <<rows, now, nextId, exported, snapshot, rt, running, haVars,
                 dataSource>>

\* handleDataUpdate, the onDataUpdate of HADataSource.
handleDataUpdate(d, data, room) ==
  [d EXCEPT !.data = mergeEmptyData(data), !.room = room, !.viewingId = 0,
            !.status = "Auto-updated from Home Assistant"]

HandleDataUpdate(data, room) ==
  /\ dash' = handleDataUpdate(dash, data, room)
  /\ UNCHANGED <<storeVars, haVars, dataSource>>

\* handleTakeSnapshot with the text of the name field trimmed: saveReading
\* of storage.ts posts the data shown with the time of the browser and no
\* device_id, then loads the history.
HandleTakeSnapshot(snapshotName) ==
  /\ ~dash.loading
  /\ UNCHANGED <<now, running, haVars, dataSource>>
  /\ IF ~hasData(dash.data)
       THEN /\ dash' = [dash EXCEPT
                          !.status = "No sensor data available to snapshot"]
            /\ UNCHANGED <<rows, nextId, resp, exported, snapshot, rt>>
       ELSE LET name == IF snapshotName # "" THEN snapshotName
                        ELSE IF dash.room # "" THEN dash.room ELSE "Snapshot"
                res == insertReading(rows,
                         [id |-> nextId, device_id |-> Null, room |-> name,
                          timestamp |-> now,
                          sensor_data |-> JSONstringify(dash.data)], now)
            IN /\ nextId <= MaxGen
               /\ nextId' = nextId + 1
               /\ rows' = res.rows
               /\ EndRoundTrip
               /\ IF ~res.ok
                    THEN /\ resp' = [NoResp EXCEPT !.op = "save",
                                                   !.status = 500]
                         /\ dash' = [dash EXCEPT !.status = "Save failed"]
                    ELSE \E s \in getReadings(res.rows, HistoryLimit, 0,
                                              "", "", 0) :
                           LET hist == loadHistory(s)
                           IN /\ resp' = historyResponse(s)
                              /\ dash' = IF Len(hist) > 0
                                           THEN [showLatest(dash, hist) EXCEPT
                                                   !.data = dash.data,
                                                   !.room = dash.room,
                                                   !.history = hist,
                                                   !.status = "Snapshot saved"]
                                           ELSE dash

\* handleImport of a file that holds the array `readings`, or no array.
HandleImport(file) ==
  /\ ~dash.loading
  /\ UNCHANGED <<now, running, haVars, dataSource>>
  /\ IF ~file.isArray
       THEN /\ dash' = [dash EXCEPT !.status = "Invalid format"]
            /\ UNCHANGED <<rows, nextId, resp, exported, snapshot, rt>>
       ELSE LET fin == importLoop([rows |-> rows, nextId |-> nextId,
                                   imported |-> 0, errors |-> 0],
                                  file.readings, now)
            IN /\ fin.nextId <= MaxGen + 1
               /\ rows' = fin.rows
               /\ nextId' = fin.nextId
               /\ EndRoundTrip
               /\ \E s \in getReadings(fin.rows, HistoryLimit, 0, "", "", 0) :
                    LET hist == loadHistory(s)
                    IN /\ resp' = historyResponse(s)
                       /\ dash' = IF Len(hist) > 0
                                    THEN [showLatest(dash, hist) EXCEPT
                                            !.history = hist,
                                            !.status = "Imported"]
                                    ELSE [dash EXCEPT !.history = hist,
                                                      !.status = "Imported"]

\* handleClearAll
HandleClearAll ==
  /\ ~dash.loading
  /\ rows' = {}
  /\ resp' = [NoResp EXCEPT !.op = "deleteAll", !.status = 200]
  /\ EndRoundTrip
  /\ dash' = [dash EXCEPT !.data = emptyData, !.history = <<>>, !.room = "",
                          !.status = "Cleared all data.", !.compareId = 0,
                          !.viewingId = 0]
  /\ UNCHANGED <<now, nextId, running, haVars, dataSource>>

\* The names typed into the snapshot field, trimmed; the data and the room
\* that HADataSource delivers; the files that are imported; the readings
\* that another client of the store saves.
SnapshotNames == {"", "r1"}
LiveData == {Obj("a"), Obj("b"), emptyData}
LiveRooms == {"r2"}
DashboardFiles ==
  {ImportBody(<<Reading(0, "", "r1", 1, Obj("b"))>>),
   ImportBody(<<Reading(0, "", "r1", 2, Obj("a")),
                Reading(0, "", "r2", 1, Obj("b"))>>),
   NotAnArray}
OtherClientBodies == {SaveBody(Obj("b"), "r2", "", ts) : ts \in 1..MaxClock}

NextDashboard ==
  \/ Tick
  \/ OnMount
  \/ \E data \in LiveData, room \in LiveRooms : HandleDataUpdate(data, room)
  \/ \E snapshotName \in SnapshotNames : HandleTakeSnapshot(snapshotName)
  \/ \E file \in DashboardFiles : HandleImport(file)
  \/ HandleClearAll
  \/ \E body \in OtherClientBodies : SaveReading(body)

SpecDashboard == Init /\ [][NextDashboard]_vars

\* The rows of rws that no row is newer than.
Latest(rws) == {x \in rws : \A y \in rws : y.timestamp <= x.timestamp}
Oldest(rws) == {x \in rws : \A y \in rws : y.timestamp >= x.timestamp}

\* No row of rws lies between c and v in time, c being the earlier one.
ImmediatelyBefore(rws, c, v) ==
  /\ c # v
  /\ c.timestamp <= v.timestamp
  /\ \A y \in rws \ {c, v} :
       y.timestamp <= c.timestamp \/ y.timestamp >= v.timestamp

\* The step is a snapshot that succeeded, the initial load or an import,
\* and it found a reading to show.
ShowsLatest ==
  \/ /\ \E snapshotName \in SnapshotNames : HandleTakeSnapshot(snapshotName)
     /\ dash'.status = "Snapshot saved"
  \/ OnMount /\ dash'.status = "Loaded latest"
  \/ /\ \E file \in DashboardFiles : HandleImport(file)
     /\ dash'.status = "Imported" /\ dash'.history # <<>>

\* C28: after the dashboard has taken a snapshot successfully, and likewise
\* after the initial load and after an import, the reading marked as viewed
\* is the most recent stored reading (none has a greater timestamp) and the
\* reading selected for comparison is the one immediately before it in time.
C28_ViewsLatest ==
  [][ShowsLatest
       => /\ \E v \in Latest(rows') : dash'.viewingId = v.id
          /\ Cardinality(rows') > 1
               => \E v \in Latest(rows'), c \in rows' :
                    /\ dash'.viewingId = v.id
                    /\ dash'.compareId = c.id
                    /\ ImmediatelyBefore(rows', c, v)]_vars

\* What holds instead: the reading marked as viewed is the last of the
\* history, which is listed newest first: no stored reading is older, and
\* the one compared with is the next newer one.
C28_ViewsOldest ==
  [][ShowsLatest
       => /\ \E v \in Oldest(rows') : dash'.viewingId = v.id
          /\ Cardinality(rows') > 1
               => \E v \in Oldest(rows'), c \in rows' :
                    /\ dash'.viewingId = v.id
                    /\ dash'.compareId = c.id
                    /\ ImmediatelyBefore(rows', v, c)]_vars

(***************************************************************************)
(* SpecSource: the HADataSource component.  /api/sensors answers with the  *)
(* list of the devices it found, each named by its entity_id; the requests *)
(* of fetchData are counted from 1.                                        *)
(***************************************************************************)
MaxFetches == 3

\* handleError, the onError of HADataSource.
handleError(d, error) == [d EXCEPT !.status = error]

\* fetchData up to its first await: the selection is read and, when there
\* is one, /api/sensors is requested.
startFetch(ds) ==
  IF ds.selectedSensor = ""
    THEN ds
    ELSE [ds EXCEPT !.started = @ + 1,
                    !.fetches = @ \cup {[n |-> ds.started + 1,
                                         entityId |-> ds.selectedSensor]}]

\* The polling effect: it runs again when selectedSensor or config has
\* changed, and with a selection and a configuration it fetches at once (and
\* replaces the interval).
pollingEffect(old, new) ==
  IF /\ new.selectedSensor # old.selectedSensor \/ new.config # old.config
     /\ new.selectedSensor # "" /\ new.config
    THEN startFetch(new)
    ELSE new

\* loadSelectedSensor
loadSelectedSensor(ds) ==
  IF ds.localStorage # ""
    THEN [ds EXCEPT !.selectedSensor = ds.localStorage]
    ELSE ds

\* saveSelectedSensor
saveSelectedSensor(ds, entityId) ==
  [ds EXCEPT !.localStorage = entityId, !.selectedSensor = entityId]

\* fetchSensors of HADataSource with the answer of /api/sensors.
sourceFetchSensors(ds, response) ==
  IF ~response.ok
    THEN [ds EXCEPT !.connected = FALSE,
                    !.error = "Failed to discover sensors"]
    ELSE LET sensorList == response.devices
             listed == [ds EXCEPT !.sensors = sensorList,
                                  !.connected = TRUE, !.error = ""]
         IN IF Len(sensorList) = 1
              THEN saveSelectedSensor(listed, sensorList[1])
              ELSE IF /\ ds.selectedSensor # ""
                      /\ \A i \in DOMAIN sensorList :
                           sensorList[i] # ds.selectedSensor
                      /\ Len(sensorList) > 0
                     THEN [listed EXCEPT !.selectedSensor = "",
                                         !.localStorage = ""]
                     ELSE listed

\* The initializing effect up to the answer of /api/config.
Mount(configOk) ==
  /\ dataSource.loading /\ ~dataSource.config
  /\ IF configOk
       THEN /\ dataSource' = pollingEffect(dataSource,
                 [loadSelectedSensor(dataSource) EXCEPT !.config = TRUE])
            /\ UNCHANGED dash
       ELSE /\ dataSource' = [loadSelectedSensor(dataSource) EXCEPT
                                !.loading = FALSE]
            /\ dash' = handleError(dash, "Failed to load configuration")
  /\ UNCHANGED <<storeVars, haVars>>

\* fetchSensors, called by the initializing effect after the configuration
\* has come and by the Retry button, which is shown with an error.
SourceFetchSensors(response) ==
  /\ dataSource.config
  /\ dataSource.loading \/ dataSource.error # ""
  /\ dataSource' = pollingEffect(dataSource,
       [sourceFetchSensors(dataSource, response) EXCEPT !.loading = FALSE])
  /\ dataSource'.started <= MaxFetches
  /\ dash' = IF response.ok
               THEN dash
               ELSE handleError(dash, "Failed to discover sensors")
  /\ UNCHANGED <<storeVars, haVars>>

\* handleSensorChange: the select is shown with two sensors or more and no
\* error; its options are the sensors and "" (choose a sensor).
HandleSensorChange(value) ==
  /\ ~dataSource.loading /\ dataSource.error = ""
  /\ Len(dataSource.sensors) > 1
  /\ dataSource' = pollingEffect(dataSource,
                                 saveSelectedSensor(dataSource, value))
  /\ dataSource'.started <= MaxFetches
  /\ UNCHANGED <<dash, storeVars, haVars>>

\* The interval of the polling effect fires.
IntervalFires ==
  /\ dataSource.selectedSensor # "" /\ dataSource.config
  /\ dataSource.started < MaxFetches
  /\ dataSource' = startFetch(dataSource)
  /\ UNCHANGED <<dash, storeVars, haVars>>

\* refreshNow
RefreshNow ==
  /\ ~dataSource.loading /\ dataSource.error = ""
  /\ Len(dataSource.sensors) > 0 /\ dataSource.selectedSensor # ""
  /\ dataSource.started < MaxFetches
  /\ dataSource' = startFetch(dataSource)
  /\ UNCHANGED <<dash, storeVars, haVars>>

\* The sensor data of device entityId, and its room:
\* `device.room || device.device_name || 'Unknown'`.
sensorData(entityId) == Obj(entityId)

\* fetchData from the answer to its request f on.
FetchData(f, response) ==
  /\ f \in dataSource.fetches
  /\ IF response.ok /\ \E i \in DOMAIN response.devices :
                         response.devices[i] = f.entityId
       THEN /\ dash' = handleDataUpdate(dash, sensorData(f.entityId),
                                        f.entityId)
            /\ dataSource' = [dataSource EXCEPT
                                !.fetches = @ \ {f},
                                !.delivered = [entityId |-> f.entityId,
                                               fetch |-> f.n],
                                !.connected = TRUE, !.error = ""]
       ELSE /\ dash' = handleError(dash, "Failed to fetch sensor data")
            /\ dataSource' = [dataSource EXCEPT
                                !.fetches = @ \ {f},
                                !.connected = FALSE,
                                !.error = "Failed to fetch sensor data"]
  /\ UNCHANGED <<storeVars, haVars>>

\* The answers of /api/sensors; the sensor that localStorage remembers.
SensorResponses ==
  {[ok |-> FALSE, devices |-> <<>>]}
  \cup {[ok |-> TRUE, devices |-> l] :
          l \in {<<>>, <<"air1_a">>, <<"air1_b">>, <<"air1_a", "air1_b">>}}
RememberedSensors == {"", "air1_a", "air1_gone"}
Fetches ==
  {[n |-> n, entityId |-> e] :
     n \in 1..MaxFetches, e \in {"air1_a", "air1_b", "air1_gone"}}

SourceInit ==
  /\ StoreInit /\ DashInit /\ HaIdle
  /\ dataSource \in {SourceInitWith(item) : item \in RememberedSensors}

NextSource ==
  \/ \E configOk \in BOOLEAN : Mount(configOk)
  \/ \E response \in SensorResponses : SourceFetchSensors(response)
  \/ \E value \in {"", "air1_a", "air1_b"} :
       /\ value = "" \/ \E i \in DOMAIN dataSource.sensors :
                          dataSource.sensors[i] = value
       /\ HandleSensorChange(value)
  \/ IntervalFires
  \/ RefreshNow
  \/ \E f \in Fetches, response \in SensorResponses : FetchData(f, response)

SpecSource == SourceInit /\ [][NextSource]_vars

\* Discovery has succeeded in this step.
Discovered ==
  \E response \in SensorResponses : SourceFetchSensors(response) /\ response.ok

\* C29: after every successful sensor discovery the selected sensor is none
\* or the id of a device of the discovered list: a single discovered device
\* is selected, and a remembered selection that is not in the list is
\* cleared from the state and from localStorage.
C29_SelectedDiscovered ==
  [][Discovered
       => /\ dataSource'.selectedSensor \in {""} \cup Range(dataSource'.sensors)
          /\ dataSource'.localStorage \in {""} \cup Range(dataSource'.sensors)
          /\ Len(dataSource'.sensors) = 1
               => dataSource'.selectedSensor = dataSource'.sensors[1]]_vars

\* The same for the discoveries that list a device.
C29_SelectedDiscoveredNonEmpty ==
  [][(Discovered /\ dataSource'.sensors # <<>>)
       => /\ dataSource'.selectedSensor \in {""} \cup Range(dataSource'.sensors)
          /\ dataSource'.localStorage \in {""} \cup Range(dataSource'.sensors)
          /\ Len(dataSource'.sensors) = 1
               => dataSource'.selectedSensor = dataSource'.sensors[1]]_vars

\* Sensor data have been delivered in this step.
Delivered == dataSource'.delivered # dataSource.delivered

\* C30: whenever the data source delivers sensor data to the dashboard the
\* data belong to the sensor selected at that moment and come from the most
\* recently started fetch: the answer to an earlier fetch is never applied
\* after that to a later one.
C30_DeliversCurrent ==
  [][Delivered
       => /\ dataSource'.delivered.entityId = dataSource.selectedSensor
          /\ dataSource'.delivered.fetch > dataSource.delivered.fetch]_vars

\* What holds instead: the data delivered are those of the sensor that was
\* selected when the fetch was started, shown whatever is selected now.
C30_DeliversRequested ==
  [][Delivered
       => /\ \E f \in dataSource.fetches :
               /\ dataSource'.delivered = [entityId |-> f.entityId,
                                           fetch |-> f.n]
               /\ dash'.data = sensorData(f.entityId)
          /\ dash'.viewingId = 0]_vars

====
